---- MODULE Spec2Model ----
(***************************************************************************)
(* Kenozooid dive computer drivers: the Sensus Ultra streaming extraction  *)
(* bridge (driver/su.py) and the OSTC dump conversion with its deco alarm  *)
(* scan (driver/ostc/__init__.py); device scan, version and memory dump of *)
(* both drivers; the interface registry (iface.py); the dump container     *)
(* codec, range parsing and reorder (uddf.py, cli.py).                     *)
(*                                                                         *)
(* Spec models one conversion per behaviour: Init picks the driver, as     *)
(* cmd_convert resolves it by the device id stored in the dump file.       *)
(* ReleaseSpec adds the ways a consumer can leave the bridge early, and    *)
(* PullSpec is the bridge under a consumer that keeps pulling.  The other  *)
(* parts of the program have a specification each (DeviceSpec,             *)
(* RegistrySpec, CodecSpec, RangeSpec, ReorderSpec, SampleSpec for         *)
(* parse_sample, DumpCmdSpec for cmd_dump, LogbookSpec for add_dive); the  *)
(* parts a specification does not run stay idle.                           *)
(***************************************************************************)
EXTENDS Integers, Sequences, FiniteSets, TLC

\* ----------------------------------------------------------------- bounds
MaxDives == 6
MaxSamples == 7
MaxEnd == 2
MaxRecords == 2
MaxProfile == 3
MaxRead == 3
MaxOps == 3
MaxEntries == 2
MaxBlob == 5
MaxItems == 2
MaxGroups == 2
MaxGroupDives == 2
MaxStream == 2

\* ------------------------------------------------------ program constants
\* Queue(5): capacity of the dive queue and of every sample queue.
QueueCap == 5
\* The status _iterate compares fn.result() with.
RC_SUCCESS == 0
\* Any other status of the native routine.
RC_ERROR == 1

Levels == {"dive", "sample"}
Intervals == {2}
StatusCodes == {RC_SUCCESS, RC_ERROR}
NoValue == -1

VARIABLES
    drv,        \* the driver whose conversion runs: "su" | "ostc"
    queue,      \* [level -> Seq]: dq and sq, the bridge queues
    fn,         \* [level -> "none" | "running" | "done"]: the submitted future
    result,     \* [level -> status]: fn.result() once done
    cpc,        \* [level -> position of the consumer inside _iterate]
    yielded,    \* [level -> Seq]: items _iterate has yielded (history)
    enq,        \* [level -> Seq]: items put on the queue (history)
    ppc,        \* position of the dive producer (extract_dives / parse_dive)
    stopped,    \* a callback returned 0: the native routine stops enumerating
    timedout,   \* parse_dive took the queue.Full path (history)
    header,     \* DiveHeader of the dive being parsed: interval, endcount
    sidx,       \* samples the native sample parser has completed
    sev,        \* next step of the native sample parser within a sample
    sdata,      \* parse_sample's temporary sample data
    samples,    \* parse_dive's list of samples
    dn,         \* the dive node parse_dive built (waypoints), or NoDive
    profile,    \* shape of the depth/temperature data of the dive being parsed
    opc,        \* position inside OSTCMemoryDump.dives
    nrecords,   \* dive records in the OSTC dump
    nrec,       \* dive records the loop of dives has taken
    ninvalid,   \* taken records whose header was invalid (history)
    nlogged,    \* 'invalid dive' errors logged
    produced,   \* record numbers of the dives yielded, in yield order
    sampling,   \* header.sampling of the record being converted
    deco_alarm, \* the local deco_alarm of dives
    carried,    \* deco_alarm as the previous record left it (history)
    i,          \* the local i of dives (enumerate index), NoValue while unbound
    wps,        \* waypoints of the dive node being built
    taken,      \* samples of the record enumerated so far (history)
    summary,    \* depth given to create_dive_data for the record, or NoValue
    raisedBy    \* the exception that left dives, or "none"

\* A device session: scan, then version and dump on the driver found.
VARIABLES
    kind,       \* the registered driver scanned: "ostc" | "su"
    port,       \* the port argument of scan: "none" (unspecified) | "port"
    connected,  \* a device is connected to the port
    opened,     \* a connection to a device was opened
    found,      \* driver instances scan has yielded
    dvpc,       \* position of the session
    rd,         \* the last _read: size asked, bytes delivered, outcome
    calls,      \* native calls of the Sensus Ultra dump, with their status
    image,      \* the image the dump returned: its parts, in order
    dverr,      \* the exception the last operation raised, or "none"
    nops        \* operations made on the driver

\* The interface registry (iface.py).
VARIABLES
    registry,   \* _registry: interface -> list of (cls, params)
    injected,   \* classes injected per interface, in call order (history)
    regop       \* the last query or params call and what it returned

\* The dump container codec (UDDFDeviceDump.encode / decode).
VARIABLES
    blob,       \* device data handed to set_data: a sequence of bytes
    text,       \* the text of the dcdump node
    back,       \* what get_data decoded from the text
    again,      \* the text of encoding the decoded data once more
    kpc         \* position: "init" | "encoded" | "decoded" | "reencoded"

\* Range parsing (cli.parse_range, uddf.node_range).
VARIABLES
    rspec,      \* the range specification: its items, each split at '-'
    pres,       \* what parse_range made of it
    nres        \* what node_range made of it

\* uddf.reorder on a document.
VARIABLES
    doc0,       \* the document as it was given (history)
    doc,        \* the document
    prev,       \* the document before the last reorder (history)
    oerr,       \* the exception the last reorder raised, or "none"
    ocount      \* calls of reorder made

\* parse_sample under the callbacks of one parser_samples_foreach call.
VARIABLES
    stream,     \* sample types of the callbacks still to come
    seen        \* sample types observed since the last enqueue (history)

\* The dump command (cli.cmd_dump).
VARIABLES
    nargs,      \* len(args)
    dumper,     \* find_driver found a MemoryDump driver
    cmdpc,      \* position inside cmd_dump
    downloads,  \* what each dumper.dump() returned, in call order (history)
    dumpdata,   \* the local data of cmd_dump
    saved,      \* the text of the dump node in the output file, once saved
    exitcode    \* the status cmd_dump left with sys.exit, or 0

\* logbook.add_dive.
VARIABLES
    largs,      \* the locals time, depth, duration, dive_no, fin (NoValue: None)
    lpc,        \* position inside add_dive
    lerr,       \* the exception that left add_dive, or "none"
    written     \* ku.save(doc, fout) was reached

suvars == <<queue, fn, result, cpc, yielded, enq, ppc, stopped,
            timedout, header, sidx, sev, sdata, samples, dn, profile>>
ostcvars == <<opc, nrecords, nrec, ninvalid, nlogged, produced, sampling,
              deco_alarm, carried, i, wps, taken, summary, raisedBy>>
devvars == <<kind, port, connected, opened, found, dvpc, rd, calls, image,
             dverr, nops>>
regvars == <<registry, injected, regop>>
codecvars == <<blob, text, back, again, kpc>>
rangevars == <<rspec, pres, nres>>
docvars == <<doc0, doc, prev, oerr, ocount>>
cbvars == <<stream, seen>>
cmdvars == <<nargs, dumper, cmdpc, downloads, dumpdata, saved, exitcode>>
logvars == <<largs, lpc, lerr, written>>
morevars == <<cbvars, cmdvars, logvars>>
extvars == <<devvars, regvars, codecvars, rangevars, docvars, morevars>>
base == <<drv, suvars, ostcvars>>
notdev == <<base, regvars, codecvars, rangevars, docvars, morevars>>
notreg == <<base, devvars, codecvars, rangevars, docvars, morevars>>
notcodec == <<base, devvars, regvars, rangevars, docvars, morevars>>
notrange == <<base, devvars, regvars, codecvars, docvars, morevars>>
notdoc == <<base, devvars, regvars, codecvars, rangevars, morevars>>
firstvars == <<devvars, regvars, codecvars, rangevars, docvars>>
notcb == <<drv, ostcvars, firstvars, cmdvars, logvars>>
notcmd == <<base, firstvars, cbvars, logvars>>
notlog == <<base, firstvars, cbvars, cmdvars>>
others == <<drv, ostcvars, extvars>>
vars == <<drv, suvars, ostcvars, extvars>>

NoHeader == [interval |-> 0, endcount |-> 0]
NoDive == [id |-> 0, depth |-> NoValue, duration |-> NoValue,
           temp |-> NoValue, waypoints |-> <<>>]
EmptySData == [time |-> NoValue, temp |-> NoValue, depth |-> NoValue]

\* No device session runs.
NoRead == [size |-> 0, got |-> 0, err |-> "none", len |-> NoValue]
DevIdle ==
    /\ kind = "none" /\ port = "none" /\ connected = FALSE
    /\ opened = FALSE /\ found = 0 /\ dvpc = "idle" /\ rd = NoRead
    /\ calls = <<>> /\ image = <<>> /\ dverr = "none" /\ nops = 0

\* _registry = {}
EmptyRegistry == [c \in {} |-> <<>>]
Ifaces == {"DeviceDriver", "Simulator"}
NoOp == [op |-> "none"]
RegIdle ==
    /\ registry = EmptyRegistry
    /\ injected = [c \in Ifaces |-> <<>>]
    /\ regop = NoOp

\* ------------------------------------------------------------ _iterate

\* Faulty variant: the loop ends as soon as the future is done.
QueueEmpty_ignored(q) == TRUE

\* while not (fn.done() and queue.empty()): the second operand.
QueueEmpty(q) == q = <<>>

\* if fn.result() == 0: raise StopIteration() else: raise DeviceError(...)
IterateEnd(rc) == IF rc = RC_SUCCESS THEN "stop" ELSE "error"

\* e.submit(f) and the first evaluation of the loop condition's fn.done().
TestDone(l) ==
    /\ cpc[l] = "test"
    /\ cpc' = [cpc EXCEPT ![l] = IF fn[l] = "done" THEN "test_empty" ELSE "get"]
    /\ UNCHANGED <<queue, fn, result, yielded, enq, ppc, stopped,
                   timedout, header, sidx, sev, sdata, samples, dn, profile>>
    /\ UNCHANGED others

\* fn.done() was true: queue.empty() decides whether the loop ends.
TestEmpty(l) ==
    /\ cpc[l] = "test_empty"
    /\ cpc' = [cpc EXCEPT ![l] = IF QueueEmpty(queue[l]) THEN "result" ELSE "get"]
    /\ UNCHANGED <<queue, fn, result, yielded, enq, ppc, stopped,
                   timedout, header, sidx, sev, sdata, samples, dn, profile>>
    /\ UNCHANGED others

\* Faulty variant: the queue hands out the item that was put last.
QueueGet_lifo(q) == [item |-> q[Len(q)], rest |-> SubSeq(q, 1, Len(q) - 1)]

\* queue.get on a Queue that is not empty: the item that was put first, and
\* the queue without it.
QueueGet(q) == [item |-> Head(q), rest |-> Tail(q)]

\* n = queue.get(timeout=1); yield n
GetItem(l) ==
    /\ cpc[l] = "get"
    /\ queue[l] # <<>>
    /\ queue' = [queue EXCEPT ![l] = QueueGet(@).rest]
    /\ yielded' = [yielded EXCEPT ![l] = Append(@, QueueGet(queue[l]).item)]
    /\ cpc' = [cpc EXCEPT ![l] = "yield"]
    /\ UNCHANGED <<fn, result, enq, ppc, stopped,
                   timedout, header, sidx, sev, sdata, samples, dn, profile>>
    /\ UNCHANGED others

\* Faulty variant: a pull that times out ends the loop.
OnEmpty_giveup(done) == "result"

\* Faulty variant: the handler pulls again without evaluating the loop condition.
OnEmpty_retry(done) == "get"

\* except Empty: if not fn.done(): log.warn(...); either way the handler
\* falls through to the loop condition.
OnEmpty(done) == IF done THEN "test" ELSE "warn"

\* except Empty: the queue stayed empty for the whole second.
GetTimeout(l) ==
    /\ cpc[l] = "get"
    /\ queue[l] = <<>>
    /\ cpc' = [cpc EXCEPT ![l] = OnEmpty(fn[l] = "done")]
    /\ UNCHANGED <<queue, fn, result, yielded, enq, ppc, stopped,
                   timedout, header, sidx, sev, sdata, samples, dn, profile>>
    /\ UNCHANGED others

\* log.warn('su driver possible queue miss'), then back to the loop condition.
Warn(l) ==
    /\ cpc[l] = "warn"
    /\ cpc' = [cpc EXCEPT ![l] = "test"]
    /\ UNCHANGED <<queue, fn, result, yielded, enq, ppc, stopped,
                   timedout, header, sidx, sev, sdata, samples, dn, profile>>
    /\ UNCHANGED others

\* The consumer's loop body ran and asks for the next item.  For the sample
\* level the body is parse_dive's samples.append(n).
Resume(l) ==
    /\ cpc[l] = "yield"
    /\ cpc' = [cpc EXCEPT ![l] = "test"]
    /\ samples' = IF l = "sample"
                  THEN Append(samples, yielded[l][Len(yielded[l])])
                  ELSE samples
    /\ UNCHANGED <<queue, fn, result, yielded, enq, ppc, stopped,
                   timedout, header, sidx, sev, sdata, dn, profile>>
    /\ UNCHANGED others

\* fn.result() after the loop.
Result(l) ==
    /\ cpc[l] = "result"
    /\ cpc' = [cpc EXCEPT ![l] = IterateEnd(result[l])]
    /\ UNCHANGED <<queue, fn, result, yielded, enq, ppc, stopped,
                   timedout, header, sidx, sev, sdata, samples, dn, profile>>
    /\ UNCHANGED others

Consumer(l) ==
    \/ TestDone(l)
    \/ TestEmpty(l)
    \/ GetItem(l)
    \/ GetTimeout(l)
    \/ Warn(l)
    \/ Resume(l)
    \/ Result(l)

\* ------------------------------------------- native data (libdivecomputer)

Profiles == {"descent", "ascent"}

\* Depth and temperature the native parser reports for the k-th sample.
NativeDepth(p, k) == IF p = "descent" THEN k ELSE MaxSamples + 2 - k
NativeTemp(p, k) == IF p = "descent" THEN 300 - k ELSE 290 + k
\* parser_samples_foreach counts time from 0 in steps of the interval.
NativeTime(h, k) == (k - 1) * h.interval

\* ----------------------------------------------------------- parse_sample

\* sdata['time'] = sample.time + dive_header.interval
SetTime(sd, h, t) == [sd EXCEPT !.time = t + h.interval]
\* sdata['temp'] = C2K(sample.temperature)
SetTemp(sd, t) == [sd EXCEPT !.temp = t]
\* sdata['depth'] = sample.depth
SetDepth(sd, d) == [sd EXCEPT !.depth = d]

\* Faulty variant: a queue without capacity, whose put never waits.
HasRoom_always(q) == TRUE

\* Queue(5): put adds the item once the queue holds fewer than 5 items and
\* waits as long as it is full.
HasRoom(q) == Len(q) < QueueCap

\* dives.put(dn, timeout=30) in parse_dive has a timeout; sq.put(sdata.copy())
\* in parse_sample has none and waits until the queue has room.
PutHasTimeout(l) == l = "dive"

SampleTime ==
    /\ fn["sample"] = "running"
    /\ sev = "time"
    /\ sidx < MaxSamples
    /\ sdata' = SetTime(sdata, header, NativeTime(header, sidx + 1))
    /\ sev' = "temp"
    /\ UNCHANGED <<queue, fn, result, cpc, yielded, enq, ppc, stopped,
                   timedout, header, sidx, samples, dn, profile>>
    /\ UNCHANGED others

SampleTemp ==
    /\ fn["sample"] = "running"
    /\ sev = "temp"
    /\ sdata' = SetTemp(sdata, NativeTemp(profile, sidx + 1))
    /\ sev' = "depth"
    /\ UNCHANGED <<queue, fn, result, cpc, yielded, enq, ppc, stopped,
                   timedout, header, sidx, samples, dn, profile>>
    /\ UNCHANGED others

\* The depth callback up to the call of sq.put.
SampleDepth ==
    /\ fn["sample"] = "running"
    /\ sev = "depth"
    /\ sdata' = SetDepth(sdata, NativeDepth(profile, sidx + 1))
    /\ sev' = "put"
    /\ UNCHANGED <<queue, fn, result, cpc, yielded, enq, ppc, stopped,
                   timedout, header, sidx, samples, dn, profile>>
    /\ UNCHANGED others

\* sq.put(sdata.copy()) returns once the queue has room; sdata.clear().
SamplePut ==
    /\ fn["sample"] = "running"
    /\ sev = "put"
    /\ HasRoom(queue["sample"])
    /\ queue' = [queue EXCEPT !["sample"] = Append(@, sdata)]
    /\ enq' = [enq EXCEPT !["sample"] = Append(@, sdata)]
    /\ sdata' = EmptySData
    /\ sidx' = sidx + 1
    /\ sev' = "time"
    /\ UNCHANGED <<fn, result, cpc, yielded, ppc, stopped,
                   timedout, header, samples, dn, profile>>
    /\ UNCHANGED others

\* parser_samples_foreach returns: the profile is exhausted (status success)
\* or its data is malformed (another status).
SamplesEnd ==
    /\ fn["sample"] = "running"
    /\ sev = "time"
    /\ \E rc \in StatusCodes :
          result' = [result EXCEPT !["sample"] = rc]
    /\ fn' = [fn EXCEPT !["sample"] = "done"]
    /\ sev' = "end"
    /\ UNCHANGED <<queue, cpc, yielded, enq, ppc, stopped,
                   timedout, header, sidx, sdata, samples, dn, profile>>
    /\ UNCHANGED others

\* ------------------------------------------------------------- parse_dive

\* del samples[-header.endcount:]  (Python slice semantics: the slice starts
\* at max(len - n, 0) for n > 0, and -0 is 0, the start of the list)
DelTail(s, n) ==
    IF n = 0 THEN <<>>
    ELSE SubSeq(s, 1, IF Len(s) - n > 0 THEN Len(s) - n ELSE 0)

RECURSIVE MaxDepth(_)
\* max(float(depth) for n in samples), samples not empty
MaxDepth(s) ==
    IF Len(s) = 1 THEN s[1].depth
    ELSE LET m == MaxDepth(Tail(s))
         IN IF s[1].depth > m THEN s[1].depth ELSE m

RECURSIVE MinTemp(_)
\* min(float(temperature) for n in samples), samples not empty
MinTemp(s) ==
    IF Len(s) = 1 THEN s[1].temp
    ELSE LET m == MinTemp(Tail(s))
         IN IF s[1].temp < m THEN s[1].temp ELSE m

\* duration = int(divetime of samples[-1]) + header.interval
Duration(s, h) == s[Len(s)].time + h.interval

\* create_dive_profile_sample(dn, UDDF_SAMPLE, depth=0.0, time=t)
Boundary(t) == [time |-> t, temp |-> NoValue, depth |-> 0]

\* Faulty variant: the last waypoint is not injected.
BuildDive_noexit(id, s, h) ==
    [id |-> id, depth |-> MaxDepth(s), duration |-> Duration(s, h),
     temp |-> MinTemp(s),
     waypoints |-> <<Boundary(0)>> \o s]

\* The dive node with the first waypoint injected, the kept samples appended
\* and the last waypoint injected.
BuildDive(id, s, h) ==
    [id |-> id, depth |-> MaxDepth(s), duration |-> Duration(s, h),
     temp |-> MinTemp(s),
     waypoints |-> <<Boundary(0)>> \o s \o <<Boundary(Duration(s, h))>>]

\* _iterate(dq, extract_dives) is started by the caller of convert.
Convert ==
    /\ drv = "su"
    /\ cpc["dive"] = "idle"
    /\ cpc' = [cpc EXCEPT !["dive"] = "test"]
    /\ fn' = [fn EXCEPT !["dive"] = "running"]
    /\ ppc' = "native"
    /\ UNCHANGED <<queue, result, yielded, enq, stopped,
                   timedout, header, sidx, sev, sdata, samples, dn, profile>>
    /\ UNCHANGED others

\* extract_dives finds the next dive and calls parse_dive, which reads the
\* header and starts _iterate(sq, extract_samples) on a new queue.
ParseDiveBegin ==
    /\ ppc = "native"
    /\ ~stopped
    /\ Len(enq["dive"]) < MaxDives
    /\ \E iv \in Intervals, e \in 0..MaxEnd :
          header' = [interval |-> iv, endcount |-> e]
    /\ profile' \in Profiles
    /\ queue' = [queue EXCEPT !["sample"] = <<>>]
    /\ fn' = [fn EXCEPT !["sample"] = "running"]
    /\ result' = [result EXCEPT !["sample"] = RC_SUCCESS]
    /\ cpc' = [cpc EXCEPT !["sample"] = "test"]
    /\ yielded' = [yielded EXCEPT !["sample"] = <<>>]
    /\ enq' = [enq EXCEPT !["sample"] = <<>>]
    /\ sidx' = 0
    /\ sev' = "time"
    /\ sdata' = EmptySData
    /\ samples' = <<>>
    /\ dn' = NoDive
    /\ ppc' = "parse_dive"
    /\ UNCHANGED <<stopped, timedout>>
    /\ UNCHANGED others

\* The sample sequence ended cleanly: trim, summarise, build the dive node.
\* max() of an empty sequence raises ValueError inside the callback.
ParseDiveBuild ==
    /\ ppc = "parse_dive"
    /\ cpc["sample"] = "stop"
    /\ samples' = DelTail(samples, header.endcount)
    /\ IF samples' = <<>>
       THEN /\ ppc' = "raised"
            /\ dn' = NoDive
       ELSE /\ ppc' = "put"
            /\ dn' = BuildDive(Len(enq["dive"]) + 1, samples', header)
    /\ UNCHANGED <<queue, fn, result, cpc, yielded, enq, stopped,
                   timedout, header, sidx, sev, sdata, profile>>
    /\ UNCHANGED others

\* The sample sequence ended with DeviceError, which leaves parse_dive.
ParseDiveError ==
    /\ ppc = "parse_dive"
    /\ cpc["sample"] = "error"
    /\ ppc' = "raised"
    /\ UNCHANGED <<queue, fn, result, cpc, yielded, enq, stopped,
                   timedout, header, sidx, sev, sdata, samples, dn, profile>>
    /\ UNCHANGED others

\* parse_dive returns: its queue, its samples and its dive node go out of
\* scope with it.
CallbackReturn ==
    /\ queue' = [queue EXCEPT !["sample"] = <<>>]
    /\ fn' = [fn EXCEPT !["sample"] = "none"]
    /\ result' = [result EXCEPT !["sample"] = RC_SUCCESS]
    /\ cpc' = [cpc EXCEPT !["sample"] = "idle"]
    /\ yielded' = [yielded EXCEPT !["sample"] = <<>>]
    /\ header' = NoHeader
    /\ profile' = "descent"
    /\ sidx' = 0
    /\ sev' = "end"
    /\ sdata' = EmptySData
    /\ samples' = <<>>
    /\ dn' = NoDive

\* An exception leaving a ctypes callback is printed and dropped; the value
\* the native caller then reads as the callback's result is not defined.
CallbackRaised ==
    /\ ppc = "raised"
    /\ \E ret \in {0, 1} : stopped' = (ret = 0)
    /\ ppc' = "native"
    /\ CallbackReturn
    /\ enq' = [enq EXCEPT !["sample"] = <<>>]
    /\ UNCHANGED timedout
    /\ UNCHANGED others

\* dives.put(dn, timeout=30) finds room; return 1.
DivePut ==
    /\ ppc = "put"
    /\ HasRoom(queue["dive"])
    /\ ppc' = "native"
    /\ fn' = [fn EXCEPT !["sample"] = "none"]
    /\ result' = [result EXCEPT !["sample"] = RC_SUCCESS]
    /\ cpc' = [cpc EXCEPT !["sample"] = "idle"]
    /\ yielded' = [yielded EXCEPT !["sample"] = <<>>]
    /\ queue' = [queue EXCEPT !["dive"] = Append(@, dn.id), !["sample"] = <<>>]
    /\ enq' = [enq EXCEPT !["dive"] = Append(@, dn.id), !["sample"] = <<>>]
    /\ header' = NoHeader
    /\ profile' = "descent"
    /\ sidx' = 0
    /\ sev' = "end"
    /\ sdata' = EmptySData
    /\ samples' = <<>>
    /\ dn' = NoDive
    /\ UNCHANGED <<stopped, timedout>>
    /\ UNCHANGED others

\* except Full: the queue stayed full for the whole timeout; log, return 0.
DivePutFull ==
    /\ ppc = "put"
    /\ PutHasTimeout("dive")
    /\ Len(queue["dive"]) = QueueCap
    /\ timedout' = TRUE
    /\ stopped' = TRUE
    /\ ppc' = "native"
    /\ CallbackReturn
    /\ enq' = [enq EXCEPT !["sample"] = <<>>]
    /\ UNCHANGED others

\* extract_dives returns: a callback returned 0, the memory holds no more
\* dives, or the data is malformed.  The status is the native library's.
ExtractEnd ==
    /\ ppc = "native"
    /\ fn["dive"] = "running"
    /\ \E rc \in StatusCodes :
          result' = [result EXCEPT !["dive"] = rc]
    /\ fn' = [fn EXCEPT !["dive"] = "done"]
    /\ ppc' = "exit"
    /\ UNCHANGED <<queue, cpc, yielded, enq, stopped,
                   timedout, header, sidx, sev, sdata, samples, dn, profile>>
    /\ UNCHANGED others

\* ------------------------------------------------- OSTC: deco alarm scan

\* Samples as ostc_parser.dive_data yields them: a depth and, when the
\* sample carries deco information, the deco stop depth and time together.
NoDeco == [deco_depth |-> NoValue, deco_time |-> NoValue]
Decos == {NoDeco,
          [deco_depth |-> 3, deco_time |-> 25],
          [deco_depth |-> 0, deco_time |-> 25],
          [deco_depth |-> 3, deco_time |-> 160],
          [deco_depth |-> 3, deco_time |-> 0]}
Depths == {4, 5}
OstcSamples == {[depth |-> d, deco_depth |-> c.deco_depth,
                 deco_time |-> c.deco_time] : d \in Depths, c \in Decos}

\* Faulty variant: the stop's ceiling itself (one metre below the stop) is excluded.
deco_alarm_start_strict(sample) ==
    /\ sample.deco_depth # NoValue
    /\ sample.deco_depth > 0
    /\ sample.deco_time > 0
    /\ sample.depth - sample.deco_depth < 1

deco_alarm_start(sample) ==
    /\ sample.deco_depth # NoValue
    /\ sample.deco_depth > 0
    /\ sample.deco_time > 0
    /\ sample.depth - sample.deco_depth <= 1

\* Faulty variant: the sentinel deco time 160 is not tested.
deco_alarm_end_no160(sample) ==
    /\ sample.deco_time # NoValue
    /\ \/ sample.depth - sample.deco_depth > 1
       \/ sample.deco_depth = 0
       \/ sample.deco_time = 0

deco_alarm_end(sample) ==
    /\ sample.deco_time # NoValue
    /\ \/ sample.depth - sample.deco_depth > 1
       \/ sample.deco_depth = 0
       \/ sample.deco_time = 160
       \/ sample.deco_time = 0

\* Python raises TypeError when None takes part in the comparison or the
\* subtraction that the condition reaches.
deco_alarm_start_fails(sample) ==
    /\ sample.deco_depth # NoValue
    /\ sample.deco_depth > 0
    /\ sample.deco_time = NoValue

deco_alarm_end_fails(sample) ==
    /\ sample.deco_time # NoValue
    /\ sample.deco_depth = NoValue

\* Faulty variant: the flag is recomputed from each sample alone.
AlarmStep_unsticky(alarm, sample) == deco_alarm_start(sample)

\* Faulty variant: two independent if statements, the second of which sees the
\* flag the first has just changed.
AlarmStep_twice(alarm, sample) ==
    LET ended == IF alarm /\ deco_alarm_end(sample) THEN FALSE ELSE alarm
    IN  IF ~ended /\ deco_alarm_start(sample) THEN TRUE ELSE ended

\* if deco_alarm and deco_alarm_end(sample): deco_alarm = False
\* elif not deco_alarm and deco_alarm_start(sample): deco_alarm = True
AlarmStep(alarm, sample) ==
    IF alarm /\ deco_alarm_end(sample) THEN FALSE
    ELSE IF ~alarm /\ deco_alarm_start(sample) THEN TRUE
    ELSE alarm

AlarmStepFails(alarm, sample) ==
    IF alarm THEN deco_alarm_end_fails(sample)
    ELSE deco_alarm_start_fails(sample)

\* Faulty variant: deco_alarm is initialised once, before the loop over the records.
AlarmAtDiveStart_carried(previous) == previous

\* deco_alarm = False, inside the loop over the records.
AlarmAtDiveStart(previous) == FALSE

\* ------------------------------------------------ OSTC: OSTCMemoryDump.dives

Months == {2, 13}
Days == {28, 30}
Hours == {23, 24}
Minutes == {59, 60}
Samplings == {2, 10}
\* header.max_depth, in centimetres
MaxDepths == {500, 600}
OstcHeaders == [month : Months, day : Days, hour : Hours, minute : Minutes,
                sampling : Samplings, max_depth : MaxDepths]

\* depth=header.max_depth / 100.0
HeaderDepth(h) == h.max_depth \div 100

DaysIn(month) == IF month = 2 THEN 29
                 ELSE IF month \in {4, 6, 9, 11} THEN 30 ELSE 31

\* datetime(2000 + header.year, header.month, header.day, header.hour,
\* header.minute) raises ValueError unless the fields are in range.
DateValid(h) ==
    /\ h.month \in 1..12
    /\ h.day \in 1..DaysIn(h.month)
    /\ h.hour \in 0..23
    /\ h.minute \in 0..59

\* create_sample(time=t, depth=d, alarm='deco' if deco_alarm else None, ...)
Waypoint(t, d, alarm, sample) ==
    [time |-> t, depth |-> d, alarm |-> alarm,
     deco_depth |-> IF sample.deco_depth > 0 THEN sample.deco_depth ELSE NoValue,
     deco_time |-> IF sample.deco_depth > 0 THEN sample.deco_time ELSE NoValue]

\* The caller starts iterating dives(dump).
Dives ==
    /\ drv = "ostc"
    /\ opc = "idle"
    /\ opc' = "record"
    /\ UNCHANGED <<nrecords, nrec, ninvalid, nlogged, produced, sampling,
                   deco_alarm, carried, i, wps, taken, summary, raisedBy>>
    /\ UNCHANGED <<drv, suvars, extvars>>

\* One turn of the loop over the records up to the first sample: the header,
\* the start time (outside the try block), create_dive_data (inside it; it
\* may reject the values with ValueError), deco_alarm = False and the (0, 0)
\* waypoint.
DiveRecord ==
    /\ opc = "record"
    /\ nrec < nrecords
    /\ nrec' = nrec + 1
    /\ carried' = deco_alarm
    /\ \E h \in OstcHeaders, rejected \in BOOLEAN :
          IF ~DateValid(h)
          THEN /\ opc' = "raised"
               /\ raisedBy' = "ValueError"
               /\ ninvalid' = ninvalid + 1
               /\ UNCHANGED <<nlogged, sampling, deco_alarm, wps, summary>>
          ELSE IF rejected
          THEN /\ opc' = "record"
               /\ ninvalid' = ninvalid + 1
               /\ nlogged' = nlogged + 1
               /\ UNCHANGED <<sampling, deco_alarm, wps, summary, raisedBy>>
          ELSE /\ opc' = "samples"
               /\ sampling' = h.sampling
               /\ summary' = HeaderDepth(h)
               /\ deco_alarm' = AlarmAtDiveStart(deco_alarm)
               /\ wps' = <<Waypoint(0, 0, FALSE, NoDeco)>>
               /\ UNCHANGED <<ninvalid, nlogged, raisedBy>>
    /\ UNCHANGED <<nrecords, produced, i, taken>>
    /\ UNCHANGED <<drv, suvars, extvars>>

\* One turn of the loop over the samples of the record.
DiveSample ==
    /\ opc = "samples"
    /\ Len(wps) - 1 < MaxProfile
    /\ \E sample \in OstcSamples :
          IF AlarmStepFails(deco_alarm, sample)
          THEN /\ opc' = "raised"
               /\ raisedBy' = "TypeError"
               /\ UNCHANGED <<deco_alarm, wps, taken>>
          ELSE /\ deco_alarm' = AlarmStep(deco_alarm, sample)
               /\ wps' = Append(wps, Waypoint(Len(wps) * sampling, sample.depth,
                                              deco_alarm', sample))
               /\ taken' = Append(taken, sample)
               /\ opc' = "samples"
               /\ UNCHANGED raisedBy
    /\ i' = Len(wps) - 1
    /\ UNCHANGED <<nrecords, nrec, ninvalid, nlogged, produced, sampling, carried,
                   summary>>
    /\ UNCHANGED <<drv, suvars, extvars>>

\* The samples are exhausted: create_sample(time=(i + 2) * header.sampling,
\* depth=0.0), then yield dn.  Reading i while it is unbound raises
\* UnboundLocalError, which is no ValueError and leaves dives.
DiveClose ==
    /\ opc = "samples"
    /\ IF i = NoValue
       THEN /\ opc' = "raised"
            /\ raisedBy' = "UnboundLocalError"
            /\ UNCHANGED <<wps, produced>>
       ELSE /\ wps' = Append(wps, Waypoint((i + 2) * sampling, 0, FALSE, NoDeco))
            /\ produced' = Append(produced, nrec)
            /\ opc' = "yield"
            /\ UNCHANGED raisedBy
    /\ UNCHANGED <<nrecords, nrec, ninvalid, nlogged, sampling, deco_alarm,
                   carried, i, taken, summary>>
    /\ UNCHANGED <<drv, suvars, extvars>>

\* The caller took the dive node and asks for the next one.
DiveNext ==
    /\ opc = "yield"
    /\ opc' = "record"
    /\ wps' = <<>>
    /\ taken' = <<>>
    /\ summary' = NoValue
    /\ UNCHANGED <<nrecords, nrec, ninvalid, nlogged, produced, sampling,
                   deco_alarm, carried, i, raisedBy>>
    /\ UNCHANGED <<drv, suvars, extvars>>

\* The loop over the records is exhausted.
DivesEnd ==
    /\ opc = "record"
    /\ nrec = nrecords
    /\ opc' = "done"
    /\ UNCHANGED <<nrecords, nrec, ninvalid, nlogged, produced, sampling,
                   deco_alarm, carried, i, wps, taken, summary, raisedBy>>
    /\ UNCHANGED <<drv, suvars, extvars>>

OstcIdle ==
    /\ opc = "idle"
    /\ nrec = 0
    /\ ninvalid = 0
    /\ nlogged = 0
    /\ produced = <<>>
    /\ sampling = 0
    /\ deco_alarm = FALSE
    /\ carried = FALSE
    /\ i = NoValue
    /\ wps = <<>>
    /\ taken = <<>>
    /\ summary = NoValue
    /\ raisedBy = "none"

SUInit ==
    /\ queue = [l \in Levels |-> <<>>]
    /\ fn = [l \in Levels |-> "none"]
    /\ result = [l \in Levels |-> RC_SUCCESS]
    /\ cpc = [l \in Levels |-> "idle"]
    /\ yielded = [l \in Levels |-> <<>>]
    /\ enq = [l \in Levels |-> <<>>]
    /\ ppc = "idle"
    /\ stopped = FALSE
    /\ timedout = FALSE
    /\ header = NoHeader
    /\ sidx = 0
    /\ sev = "end"
    /\ sdata = EmptySData
    /\ samples = <<>>
    /\ dn = NoDive
    /\ profile = "descent"

NoData == [err |-> "none", data |-> <<>>]
CodecIdle ==
    /\ blob = <<>> /\ text = <<>> /\ back = NoData /\ again = <<>>
    /\ kpc = "idle"

NotParsed == [done |-> FALSE, err |-> "none", out |-> <<>>]
RangeIdle == rspec = <<>> /\ pres = NotParsed /\ nres = NotParsed

NoDoc == [profile |-> FALSE, groups |-> <<>>]
DocIdle ==
    /\ doc0 = NoDoc /\ doc = NoDoc /\ prev = NoDoc
    /\ oerr = "none" /\ ocount = 0

CbIdle == stream = <<>> /\ seen = {}

NoFile == [written |-> FALSE, text |-> <<>>]
CmdIdle ==
    /\ nargs = 0 /\ dumper = FALSE /\ cmdpc = "idle" /\ downloads = <<>>
    /\ dumpdata = <<>> /\ saved = NoFile /\ exitcode = 0

ArgNames == {"time", "depth", "duration", "dive_no", "fin"}
NoArgs == [a \in ArgNames |-> NoValue]
LogIdle == largs = NoArgs /\ lpc = "idle" /\ lerr = "none" /\ written = FALSE

\* No conversion runs.
BaseIdle ==
    /\ drv = "none"
    /\ SUInit
    /\ OstcIdle
    /\ nrecords = 0

\* Every part but g is idle.
IdleBut(g) ==
    /\ IF g = "dev" THEN TRUE ELSE DevIdle
    /\ IF g = "reg" THEN TRUE ELSE RegIdle
    /\ IF g = "codec" THEN TRUE ELSE CodecIdle
    /\ IF g = "range" THEN TRUE ELSE RangeIdle
    /\ IF g = "doc" THEN TRUE ELSE DocIdle
    /\ IF g = "cb" THEN TRUE ELSE CbIdle
    /\ IF g = "cmd" THEN TRUE ELSE CmdIdle
    /\ IF g = "log" THEN TRUE ELSE LogIdle

ExtIdle == IdleBut("none")

Init ==
    /\ drv \in {"su", "ostc"}
    /\ SUInit
    /\ OstcIdle
    /\ ExtIdle
    /\ nrecords \in IF drv = "ostc" THEN 0..MaxRecords ELSE {0}

Next ==
    \/ Convert
    \/ \E l \in Levels : Consumer(l)
    \/ SampleTime
    \/ SampleTemp
    \/ SampleDepth
    \/ SamplePut
    \/ SamplesEnd
    \/ ParseDiveBegin
    \/ ParseDiveBuild
    \/ ParseDiveError
    \/ CallbackRaised
    \/ DivePut
    \/ DivePutFull
    \/ ExtractEnd
    \/ Dives
    \/ DiveRecord
    \/ DiveSample
    \/ DiveClose
    \/ DiveNext
    \/ DivesEnd

Spec == Init /\ [][Next]_vars

\* ============================================== the bridge's exit paths
\* _iterate runs inside 'with ThreadPoolExecutor(max_workers=1) as e': every
\* way out of the generator passes e.shutdown(wait=True), which returns once
\* the worker has finished f.

\* The consumer does not come back for the next item: its loop body raised,
\* or it stopped pulling.  The generator is closed at its yield and the
\* with block is left: the consuming thread waits in shutdown(wait=True).
Abandon(l) ==
    /\ cpc[l] = "yield"
    /\ cpc' = [cpc EXCEPT ![l] = "closing"]
    /\ UNCHANGED <<queue, fn, result, yielded, enq, ppc, stopped,
                   timedout, header, sidx, sev, sdata, samples, dn, profile>>
    /\ UNCHANGED others

\* shutdown(wait=True) returns: the worker has finished.
Shutdown(l) ==
    /\ cpc[l] = "closing"
    /\ fn[l] = "done"
    /\ cpc' = [cpc EXCEPT ![l] = "closed"]
    /\ UNCHANGED <<queue, fn, result, yielded, enq, ppc, stopped,
                   timedout, header, sidx, sev, sdata, samples, dn, profile>>
    /\ UNCHANGED others

\* The exception of parse_dive's loop body leaves parse_dive.
ParseDiveAbandoned ==
    /\ ppc = "parse_dive"
    /\ cpc["sample"] = "closed"
    /\ ppc' = "raised"
    /\ UNCHANGED <<queue, fn, result, cpc, yielded, enq, stopped,
                   timedout, header, sidx, sev, sdata, samples, dn, profile>>
    /\ UNCHANGED others

\* The thread that called convert and pulls the dives.
MainThread ==
    \/ Convert
    \/ Consumer("dive")
    \/ Shutdown("dive")

\* The worker of the dive level: extract_dives and its callback parse_dive,
\* which pulls the samples.
DiveWorker ==
    \/ ParseDiveBegin
    \/ Consumer("sample")
    \/ Shutdown("sample")
    \/ ParseDiveBuild
    \/ ParseDiveError
    \/ ParseDiveAbandoned
    \/ CallbackRaised
    \/ DivePut
    \/ DivePutFull
    \/ ExtractEnd

\* The worker of the sample level: extract_samples and its callback
\* parse_sample.
SampleWorker ==
    \/ SampleTime
    \/ SampleTemp
    \/ SampleDepth
    \/ SamplePut
    \/ SamplesEnd

ReleaseInit == Init /\ drv = "su"

ReleaseNext ==
    \/ MainThread
    \/ DiveWorker
    \/ SampleWorker
    \/ \E l \in Levels : Abandon(l)

\* Every thread that can take a step takes one, and the dive data is finite:
\* extract_dives, which can return whenever it is between two dives, does
\* return.  Nothing obliges a consumer to abandon its sequence.
ReleaseSpec ==
    /\ ReleaseInit
    /\ [][ReleaseNext]_vars
    /\ WF_vars(MainThread)
    /\ WF_vars(DiveWorker)
    /\ WF_vars(SampleWorker)
    /\ SF_vars(ExtractEnd)

\* A Sensus Ultra conversion whose consumers keep pulling.  The end of a
\* sequence depends on how many items come and when, not on what they hold:
\* the dives here are of one shape and have one sample trimmed.
OneShape == profile' = "descent" /\ header'.endcount = 1

PullNext ==
    \/ Convert
    \/ \E l \in Levels : Consumer(l)
    \/ SampleWorker
    \/ ParseDiveBegin /\ OneShape
    \/ ParseDiveBuild
    \/ ParseDiveError
    \/ CallbackRaised
    \/ DivePut
    \/ DivePutFull
    \/ ExtractEnd

\* A consumer that can take a step of _iterate takes one.  Nothing is
\* assumed about the producers: whether and when the native routines go on
\* or return is theirs.
PullSpec ==
    /\ ReleaseInit
    /\ [][PullNext]_vars
    /\ WF_vars(Consumer("dive"))
    /\ WF_vars(Consumer("sample"))

\* ========================================================== device session
\* Scan for a device, then version and memory dump on the driver found
\* (OSTCDriver, OSTCMemoryDump, SensusUltraDriver, SensusUltraMemoryDump).

Kinds == {"ostc", "su"}
Ports == {"none", "port"}

SIZE_MEM_USER == 16384
SIZE_MEM_DATA == 2080768
SIZE_MEM_HANDSHAKE == 24
\* self.driver._read(33034)
SIZE_OSTC_DUMP == 33034
SIZE_OSTC_VERSION == 2
SIZE_OSTC_FINGERPRINT == 16

\* Serial(port=port, ...) in OSTCDriver.__init__: the serial library opens the
\* port at once when one is given and raises SerialException when that fails;
\* without a port it builds an unopened object and raises nothing.
SerialOpen(p, c) ==
    IF p = "none" THEN [raised |-> FALSE, opened |-> FALSE]
    ELSE IF c THEN [raised |-> FALSE, opened |-> TRUE]
    ELSE [raised |-> TRUE, opened |-> FALSE]

\* Status of lib.reefnet_sensusultra_device_open: it fails without a device.
OpenCodes(c) == IF c THEN StatusCodes ELSE {RC_ERROR}

\* try: drv = OSTCDriver(port); yield drv / except SerialException: log
OSTCDriver_scan(p, c) ==
    LET s == SerialOpen(p, c)
    IN  [found |-> IF s.raised THEN 0 ELSE 1, opened |-> s.opened]

\* rc = 0; if port is not None: rc = open(...); if rc == 0: yield drv
SensusUltraDriver_scan(p, rcopen) ==
    LET rc == IF p # "none" THEN rcopen ELSE RC_SUCCESS
    IN  [found |-> IF rc = RC_SUCCESS THEN 1 ELSE 0,
         opened |-> p # "none" /\ rc = RC_SUCCESS]

Scan ==
    /\ dvpc = "init"
    /\ \E rc \in OpenCodes(connected) :
          LET r == IF kind = "ostc" THEN OSTCDriver_scan(port, connected)
                   ELSE SensusUltraDriver_scan(port, rc)
          IN  /\ found' = r.found
              /\ opened' = r.opened
              /\ dvpc' = IF r.found > 0 THEN "ready" ELSE "done"
    /\ UNCHANGED <<kind, port, connected, rd, calls, image, dverr, nops>>
    /\ UNCHANGED notdev

\* Bytes self._device.read(size) can deliver before its timeout: 0..size.
Delivered(size) == {d \in 0..size : d <= MaxRead \/ d >= size - 1}

\* Faulty variant: whatever arrived is returned.
_read_lenient(size, got) ==
    [size |-> size, got |-> got, err |-> "none", len |-> got]

\* data = self._device.read(size);
\* if len(data) != size: raise DeviceError(...); return data
_read(size, got) ==
    IF got # size
    THEN [size |-> size, got |-> got, err |-> "DeviceError", len |-> NoValue]
    ELSE [size |-> size, got |-> got, err |-> "none", len |-> got]

\* The driver can take an operation.
Ready == dvpc \in {"ready", "versioned", "dumped"} /\ nops < MaxOps

\* OSTCDriver.version: _write(b'e'), _read(2), _read(16).  Writing to a port
\* that was never opened raises the serial library's own exception.
OstcVersion ==
    /\ Ready /\ kind = "ostc"
    /\ IF ~opened
       THEN rd' = rd /\ dverr' = "SerialException"
       ELSE \E d1 \in Delivered(SIZE_OSTC_VERSION),
               d2 \in Delivered(SIZE_OSTC_FINGERPRINT) :
               LET r1 == _read(SIZE_OSTC_VERSION, d1)
                   r2 == _read(SIZE_OSTC_FINGERPRINT, d2)
                   r == IF r1.err # "none" THEN r1 ELSE r2
               IN  rd' = r /\ dverr' = r.err
    /\ dvpc' = "versioned"
    /\ image' = <<>>
    /\ nops' = nops + 1
    /\ UNCHANGED <<kind, port, connected, opened, found, calls>>
    /\ UNCHANGED notdev

\* OSTCMemoryDump.dump: _write(b'a'); return self.driver._read(33034)
OstcDump ==
    /\ Ready /\ kind = "ostc"
    /\ IF ~opened
       THEN rd' = rd /\ dverr' = "SerialException" /\ image' = <<>>
       ELSE \E d \in Delivered(SIZE_OSTC_DUMP) :
               LET r == _read(SIZE_OSTC_DUMP, d)
               IN  /\ rd' = r
                   /\ dverr' = r.err
                   /\ image' = IF r.err = "none"
                               THEN <<[part |-> "dump", size |-> r.len]>>
                               ELSE <<>>
    /\ dvpc' = "dumped"
    /\ nops' = nops + 1
    /\ UNCHANGED <<kind, port, connected, opened, found, calls>>
    /\ UNCHANGED notdev

\* Faulty variant: the status of a native call is not looked at.
DumpStatus_ignored(rc) == "none"

\* if rc != 0: raise DeviceError('Device communication error')
DumpStatus(rc) == IF rc # RC_SUCCESS THEN "DeviceError" ELSE "none"

\* return hd.raw[:-1] + ud.raw[:-1] + dd.raw[:-1]
SUImage ==
    <<[part |-> "handshake", size |-> (SIZE_MEM_HANDSHAKE + 1) - 1],
      [part |-> "user", size |-> (SIZE_MEM_USER + 1) - 1],
      [part |-> "data", size |-> (SIZE_MEM_DATA + 1) - 1]>>

\* SensusUltraMemoryDump.dump up to its first native call.
SuDumpBegin ==
    /\ Ready /\ kind = "su"
    /\ dvpc' = "read_user"
    /\ calls' = <<>>
    /\ image' = <<>>
    /\ dverr' = "none"
    /\ nops' = nops + 1
    /\ UNCHANGED <<kind, port, connected, opened, found, rd>>
    /\ UNCHANGED notdev

\* One native call of dump and the test of its status; after the last call
\* the image is returned.
DumpStep(step, next) ==
    /\ dvpc = step
    /\ \E rc \in StatusCodes :
          /\ calls' = Append(calls, [name |-> step, rc |-> rc])
          /\ dverr' = DumpStatus(rc)
          /\ dvpc' = IF DumpStatus(rc) # "none" THEN "dumped" ELSE next
          /\ image' = IF DumpStatus(rc) = "none" /\ next = "dumped"
                      THEN SUImage ELSE <<>>
    /\ UNCHANGED <<kind, port, connected, opened, found, rd, nops>>
    /\ UNCHANGED notdev

\* rc = lib.reefnet_sensusultra_device_read_user(dev, ud, SIZE_MEM_USER)
SuReadUser == DumpStep("read_user", "get_handshake")
\* rc = lib.reefnet_sensusultra_device_get_handshake(dev, hd, ...)
SuGetHandshake == DumpStep("get_handshake", "device_dump")
\* rc = lib.device_dump(dev, dd_buf)
SuDeviceDump == DumpStep("device_dump", "dumped")

DeviceInit ==
    /\ BaseIdle
    /\ IdleBut("dev")
    /\ kind \in Kinds
    /\ port \in Ports
    /\ connected \in BOOLEAN
    /\ opened = FALSE /\ found = 0 /\ dvpc = "init" /\ rd = NoRead
    /\ calls = <<>> /\ image = <<>> /\ dverr = "none" /\ nops = 0

DeviceNext ==
    \/ Scan
    \/ OstcVersion
    \/ OstcDump
    \/ SuDumpBegin
    \/ SuReadUser
    \/ SuGetHandshake
    \/ SuDeviceDump

DeviceSpec == DeviceInit /\ [][DeviceNext]_vars


\* ================================================================ registry
\* iface.py: inject, _applies, query, params.

Classes == {"A", "B"}
Keys == {"id", "name"}
Values == {"x", "y"}
\* Keyword arguments: every map from some of the keys to values.
ParamMaps == UNION {[K -> Values] : K \in SUBSET Keys}
NoParams == [k \in {} |-> "x"]
\* Parameters classes are injected with.
EntryParams == {p \in ParamMaps : "name" \in DOMAIN p => p["name"] = "x"}

\* if iface not in _registry: _registry[iface] = []
\* _registry[iface].append((cls, params))
inject_unique(reg, iface, cls, params) ==
    [c \in DOMAIN reg \cup {iface} |->
        LET old == IF c \in DOMAIN reg THEN reg[c] ELSE <<>>
        IN  IF c = iface /\ \A k \in 1..Len(old) : old[k].cls # cls
            THEN Append(old, [cls |-> cls, params |-> params])
            ELSE old]

inject(reg, iface, cls, params) ==
    [c \in DOMAIN reg \cup {iface} |->
        LET old == IF c \in DOMAIN reg THEN reg[c] ELSE <<>>
        IN  IF c = iface
            THEN Append(old, [cls |-> cls, params |-> params])
            ELSE old]

\* Faulty variant: a filter key the entry lacks is passed over.
_applies_lax(p1, p2) ==
    \A k \in DOMAIN p1 : k \in DOMAIN p2 => p1[k] = p2[k]

\* keys = set(p2.keys())
\* all(k in keys and p1[k] == p2[k] for k in p1.keys())
_applies(p1, p2) ==
    \A k \in DOMAIN p1 : k \in DOMAIN p2 /\ p1[k] = p2[k]

\* The orders in which a dictionary can enumerate its keys.
Orders(S) ==
    {o \in [1..Cardinality(S) -> S] : \A c \in S : \E k \in DOMAIN o : o[k] = c}

\* itertools.chain(*_registry.values())
RECURSIVE Chain(_, _)
Chain(reg, order) ==
    IF order = <<>> THEN <<>>
    ELSE reg[Head(order)] \o Chain(reg, Tail(order))

\* Faulty variant: the interface is looked up without the membership test.
Data_unchecked(reg, iface, order) ==
    IF iface = "None" THEN [err |-> "none", data |-> Chain(reg, order)]
    ELSE IF iface \in DOMAIN reg THEN [err |-> "none", data |-> reg[iface]]
    ELSE [err |-> "KeyError", data |-> <<>>]

\* if iface is None: chain(...) / elif iface in _registry: ... / else: ()
Data(reg, iface, order) ==
    IF iface = "None" THEN [err |-> "none", data |-> Chain(reg, order)]
    ELSE IF iface \in DOMAIN reg THEN [err |-> "none", data |-> reg[iface]]
    ELSE [err |-> "none", data |-> <<>>]

ClsOf(entries) == [k \in 1..Len(entries) |-> entries[k].cls]

\* return (cls for cls, p in data if _applies(params, p))
query(reg, iface, filter, order) ==
    LET d == Data(reg, iface, order)
        Match(e) == _applies(filter, e.params)
    IN  [err |-> d.err, out |-> ClsOf(SelectSeq(d.data, Match))]

\* for c, p in chain(...): if c == cls: return p  (None when nothing matches)
params(reg, cls, order) ==
    LET all == Chain(reg, order)
        hits == {k \in 1..Len(all) : all[k].cls = cls}
    IN  IF hits = {} THEN [found |-> FALSE, params |-> NoParams]
        ELSE [found |-> TRUE,
              params |-> all[CHOOSE k \in hits : \A j \in hits : k <= j].params]

Entries(reg) == Chain(reg, CHOOSE o \in Orders(DOMAIN reg) : TRUE)

\* @inject(iface, **params) applied to a class.
Inject ==
    /\ Len(Entries(registry)) < MaxEntries
    /\ regop = NoOp
    /\ \E c \in Ifaces, cls \in Classes, p \in EntryParams :
          /\ registry' = inject(registry, c, cls, p)
          /\ injected' = [injected EXCEPT ![c] = Append(@, cls)]
    /\ regop' = NoOp
    /\ UNCHANGED notreg

\* query(iface, **filter), its result taken as a tuple.
Query ==
    /\ regop = NoOp
    /\ \E c \in Ifaces \cup {"None"}, f \in ParamMaps,
          o \in Orders(DOMAIN registry) :
          LET r == query(registry, c, f, o)
          IN  regop' = [op |-> "query", iface |-> c, filter |-> f,
                        order |-> o, err |-> r.err, out |-> r.out]
    /\ UNCHANGED <<registry, injected>>
    /\ UNCHANGED notreg

\* params(cls)
Params ==
    /\ regop = NoOp
    /\ \E cls \in Classes, o \in Orders(DOMAIN registry) :
          LET r == params(registry, cls, o)
          IN  regop' = [op |-> "params", cls |-> cls, order |-> o,
                        found |-> r.found, params |-> r.params]
    /\ UNCHANGED <<registry, injected>>
    /\ UNCHANGED notreg

\* The caller is done with what the call returned.
Return ==
    /\ regop # NoOp
    /\ regop' = NoOp
    /\ UNCHANGED <<registry, injected>>
    /\ UNCHANGED notreg

RegistryInit ==
    /\ BaseIdle
    /\ IdleBut("reg")
    /\ registry = EmptyRegistry
    /\ injected = [c \in Ifaces |-> <<>>]
    /\ regop = NoOp

RegistryNext ==
    \/ Inject
    \/ Query
    \/ Params
    \/ Return

RegistrySpec == RegistryInit /\ [][RegistryNext]_vars


\* =================================================================== codec
\* UDDFDeviceDump.encode: base64.b64encode(bz2.compress(data));
\* UDDFDeviceDump.decode: bz2.decompress(base64.b64decode(data)).
\* Bytes are numbers 0..255; a character of the text is the index of its
\* letter in the base64 alphabet, PadChar for '=' or another number for a
\* character outside the alphabet.

Bytes == {0, 255}
PadChar == 64

\* Seq(S) up to a length.
SeqsUpTo(S, n) == UNION {[1..k -> S] : k \in 0..n}

\* The stream header bz2.compress writes: 'B', 'Z', 'h' and the level '9'.
BZHeader == <<66, 90, 104, 57>>

\* Length of the run of equal bytes at the head of s.
RECURSIVE RunLen(_)
RunLen(s) ==
    IF s = <<>> THEN 0
    ELSE IF Len(s) = 1 \/ s[1] # s[2] THEN 1
    ELSE 1 + RunLen(Tail(s))

\* The first stage of the block compression: a run of 4 to 255 equal bytes
\* becomes four of them and a byte counting the rest.
RECURSIVE Rle(_)
Rle(s) ==
    IF s = <<>> THEN <<>>
    ELSE LET b == Head(s)
             r == RunLen(s)
             n == IF r > 255 THEN 255 ELSE r
         IN  IF n >= 4
             THEN <<b, b, b, b, n - 4>> \o Rle(SubSeq(s, n + 1, Len(s)))
             ELSE SubSeq(s, 1, n) \o Rle(SubSeq(s, n + 1, Len(s)))

\* Its inverse; four equal bytes without a count are a truncated stream.
RECURSIVE UnRle(_)
UnRle(s) ==
    IF s = <<>> THEN NoData
    ELSE IF Len(s) >= 4 /\ s[1] = s[2] /\ s[2] = s[3] /\ s[3] = s[4]
    THEN IF Len(s) = 4 THEN [err |-> "IOError", data |-> <<>>]
         ELSE LET rest == UnRle(SubSeq(s, 6, Len(s)))
              IN  [err |-> rest.err,
                   data |-> [k \in 1..(4 + s[5]) |-> s[1]] \o rest.data]
    ELSE LET rest == UnRle(Tail(s))
         IN  [err |-> rest.err, data |-> <<Head(s)>> \o rest.data]

\* bz2.compress(data)
Compress(data) == BZHeader \o Rle(data)

\* bz2.decompress(s): any level '1'..'9' is accepted.
Decompress(s) ==
    IF /\ Len(s) >= 4
       /\ SubSeq(s, 1, 3) = SubSeq(BZHeader, 1, 3)
       /\ s[4] \in 49..57
    THEN UnRle(SubSeq(s, 5, Len(s)))
    ELSE [err |-> "IOError", data |-> <<>>]

\* Faulty variant: the last group is not padded.
RECURSIVE B64Encode_nopad(_)
B64Encode_nopad(s) ==
    IF s = <<>> THEN <<>>
    ELSE IF Len(s) = 1
    THEN <<s[1] \div 4, (s[1] % 4) * 16>>
    ELSE IF Len(s) = 2
    THEN <<s[1] \div 4, (s[1] % 4) * 16 + s[2] \div 16, (s[2] % 16) * 4>>
    ELSE <<s[1] \div 4, (s[1] % 4) * 16 + s[2] \div 16,
           (s[2] % 16) * 4 + s[3] \div 64, s[3] % 64>>
         \o B64Encode_nopad(SubSeq(s, 4, Len(s)))

\* base64.b64encode(s): three bytes make four characters; a last group of one
\* or two bytes is padded with '='.
RECURSIVE B64Encode(_)
B64Encode(s) ==
    IF s = <<>> THEN <<>>
    ELSE IF Len(s) = 1
    THEN <<s[1] \div 4, (s[1] % 4) * 16, PadChar, PadChar>>
    ELSE IF Len(s) = 2
    THEN <<s[1] \div 4, (s[1] % 4) * 16 + s[2] \div 16, (s[2] % 16) * 4,
           PadChar>>
    ELSE <<s[1] \div 4, (s[1] % 4) * 16 + s[2] \div 16,
           (s[2] % 16) * 4 + s[3] \div 64, s[3] % 64>>
         \o B64Encode(SubSeq(s, 4, Len(s)))

\* Groups of four characters back to bytes; padding ends the data.
RECURSIVE B64Groups(_)
B64Groups(t) ==
    IF t = <<>> THEN NoData
    ELSE IF Len(t) < 4 \/ t[1] = PadChar \/ t[2] = PadChar
    THEN [err |-> "Incorrect padding", data |-> <<>>]
    ELSE IF t[3] = PadChar
    THEN IF t[4] = PadChar
         THEN [err |-> "none", data |-> <<t[1] * 4 + t[2] \div 16>>]
         ELSE [err |-> "Incorrect padding", data |-> <<>>]
    ELSE IF t[4] = PadChar
    THEN [err |-> "none",
          data |-> <<t[1] * 4 + t[2] \div 16,
                     (t[2] % 16) * 16 + t[3] \div 4>>]
    ELSE LET rest == B64Groups(SubSeq(t, 5, Len(t)))
         IN  [err |-> rest.err,
              data |-> <<t[1] * 4 + t[2] \div 16,
                         (t[2] % 16) * 16 + t[3] \div 4,
                         (t[3] % 4) * 64 + t[4]>> \o rest.data]

\* base64.b64decode(t): characters outside the alphabet are discarded first.
B64Decode(t) ==
    LET InAlphabet(c) == c \in 0..PadChar
    IN  B64Groups(SelectSeq(t, InAlphabet))

\* s = bz2.compress(data); return base64.b64encode(s)
encode(data) == B64Encode(Compress(data))

\* s = base64.b64decode(data); return bz2.decompress(s)
decode(data) ==
    LET s == B64Decode(data)
    IN  IF s.err # "none" THEN s ELSE Decompress(s.data)

\* set_data: dump.dcdump = self.encode(data)
Encode ==
    /\ kpc = "init"
    /\ text' = encode(blob)
    /\ kpc' = "encoded"
    /\ UNCHANGED <<blob, back, again>>
    /\ UNCHANGED notcodec

\* get_data: return self.decode(dcdump.text)
Decode ==
    /\ kpc = "encoded"
    /\ back' = decode(text)
    /\ kpc' = "decoded"
    /\ UNCHANGED <<blob, text, again>>
    /\ UNCHANGED notcodec

\* The decoded data is stored again.
Reencode ==
    /\ kpc = "decoded"
    /\ back.err = "none"
    /\ again' = encode(back.data)
    /\ kpc' = "reencoded"
    /\ UNCHANGED <<blob, text, back>>
    /\ UNCHANGED notcodec

CodecInit ==
    /\ BaseIdle
    /\ IdleBut("codec")
    /\ blob \in SeqsUpTo(Bytes, MaxBlob)
    /\ text = <<>> /\ back = NoData /\ again = <<>>
    /\ kpc = "init"

CodecNext ==
    \/ Encode
    \/ Decode
    \/ Reencode

CodecSpec == CodecInit /\ [][CodecNext]_vars


\* ================================================================== ranges
\* cli.parse_range and uddf.node_range.  A specification is the list of its
\* items (s.split(',')), an item the list of its parts (r.split('-')), a
\* part a number, a text that is no number, or nothing but blanks.

Numbers == {1, 3}
Parts ==
    {[kind |-> "empty", val |-> 0], [kind |-> "bad", val |-> 0]}
    \cup {[kind |-> "num", val |-> n] : n \in Numbers}
\* One part (no '-'), two parts (one '-'), three parts (two '-').
RangeItems == UNION {[1..k -> Parts] : k \in 1..3}
RangeSpecs == UNION {[1..k -> RangeItems] : k \in 1..MaxItems}

\* parse_range(s, infinity=100)
Infinity == 100

Failed == [err |-> "RangeError", out |-> <<>>]
Parsed(out) == [err |-> "none", out |-> out]

\* range(a, b + 1)
Range(a, b) == [k \in 1..(b - a + 1) |-> a + k - 1]

\* One turn of parse_range's loop: toint raises RangeError for a part that is
\* no number.
ParseItem(d) ==
    IF Len(d) = 1
    THEN IF d[1].kind = "num" THEN Parsed(<<d[1].val>>) ELSE Failed
    ELSE IF Len(d) = 2
    THEN IF d[1].kind # "num" THEN Failed
         ELSE IF d[2].kind = "empty" THEN Parsed(Range(d[1].val, Infinity))
         ELSE IF d[2].kind = "num" THEN Parsed(Range(d[1].val, d[2].val))
         ELSE Failed
    ELSE Failed

\* One turn of node_range's loop: int raises ValueError, which the function
\* turns into RangeError; an item of two empty parts takes no branch.
NodeItem(d) ==
    IF Len(d) = 1
    THEN IF d[1].kind = "num"
         THEN Parsed(<<[kind |-> "eq", lo |-> d[1].val, hi |-> d[1].val]>>)
         ELSE Failed
    ELSE IF Len(d) = 2
    THEN LET p1 == d[1].kind # "empty"
             p2 == d[2].kind # "empty"
         IN  IF p1 /\ p2
             THEN IF d[1].kind = "num" /\ d[2].kind = "num"
                  THEN Parsed(<<[kind |-> "between", lo |-> d[1].val,
                                 hi |-> d[2].val]>>)
                  ELSE Failed
             ELSE IF p1 /\ ~p2
             THEN IF d[1].kind = "num"
                  THEN Parsed(<<[kind |-> "from", lo |-> d[1].val,
                                 hi |-> NoValue]>>)
                  ELSE Failed
             ELSE IF ~p1 /\ p2
             THEN IF d[2].kind = "num"
                  THEN Parsed(<<[kind |-> "upto", lo |-> NoValue,
                                 hi |-> d[2].val]>>)
                  ELSE Failed
             ELSE Parsed(<<>>)
    ELSE Failed

\* for r in s.split(','): ...; the first exception ends the loop.
RECURSIVE parse_range(_)
parse_range(s) ==
    IF s = <<>> THEN Parsed(<<>>)
    ELSE LET h == ParseItem(Head(s))
             t == parse_range(Tail(s))
         IN  IF h.err # "none" \/ t.err # "none" THEN Failed
             ELSE Parsed(h.out \o t.out)

RECURSIVE node_range(_)
node_range(s) ==
    IF s = <<>> THEN Parsed(<<>>)
    ELSE LET h == NodeItem(Head(s))
             t == node_range(Tail(s))
         IN  IF h.err # "none" \/ t.err # "none" THEN Failed
             ELSE Parsed(h.out \o t.out)

ParseRange ==
    /\ rspec # <<>> /\ ~pres.done
    /\ pres' = [done |-> TRUE, err |-> parse_range(rspec).err,
                out |-> parse_range(rspec).out]
    /\ UNCHANGED <<rspec, nres>>
    /\ UNCHANGED notrange

NodeRange ==
    /\ rspec # <<>> /\ ~nres.done
    /\ nres' = [done |-> TRUE, err |-> node_range(rspec).err,
                out |-> node_range(rspec).out]
    /\ UNCHANGED <<rspec, pres>>
    /\ UNCHANGED notrange

RangeInit ==
    /\ BaseIdle
    /\ IdleBut("range")
    /\ rspec \in RangeSpecs
    /\ pres = NotParsed /\ nres = NotParsed

RangeNext ==
    \/ ParseRange
    \/ NodeRange

RangeSpec == RangeInit /\ [][RangeNext]_vars


\* ================================================================= reorder
\* uddf.reorder.  A document has a profiledata element or not; profiledata
\* holds repetition groups, a group holds dives; a dive has an identity and
\* the time its datetime element gives, or NoValue when it has none.

DiveTimes == {1, 2}
TimeSeqs == UNION {[1..k -> DiveTimes \cup {NoValue}] : k \in 0..MaxGroupDives}
GroupSeqs == UNION {[1..k -> TimeSeqs] : k \in 0..MaxGroups}

RECURSIVE Flatten(_)
\* find('//uddf:dive'): the dives in document order.
Flatten(groups) ==
    IF groups = <<>> THEN <<>> ELSE Head(groups) \o Flatten(Tail(groups))

\* The document of the given groups of times, its dives numbered in
\* document order.
Document(g) ==
    [profile |-> TRUE,
     groups |-> [k \in 1..Len(g) |->
                    [j \in 1..Len(g[k]) |->
                        [id |-> Len(Flatten(SubSeq(g, 1, k - 1))) + j,
                         time |-> g[k][j]]]]]

RECURSIVE SortedSeq(_)
\* sorted(...): the elements of a set of times in ascending order.
SortedSeq(S) ==
    IF S = {} THEN <<>>
    ELSE LET m == CHOOSE x \in S : \A y \in S : x <= y
         IN  <<m>> \o SortedSeq(S \ {m})

\* if dt not in dives: dives[dt] = n
FirstIndex(times, n, t) ==
    CHOOSE k \in 1..n : times[k] = t /\ \A j \in 1..n : times[j] = t => k <= j

\* reorder(doc): the exception raised and the document afterwards.
reorder(d) ==
    IF ~d.profile \/ d.groups = <<>>
    THEN [err |-> "ValueError", doc |-> d]
    ELSE LET nodes == Flatten(d.groups)
             HasTime(n) == n.time # NoValue
             timed == SelectSeq(nodes, HasTime)
             \* find('//uddf:dive/uddf:datetime/text()')
             times == [k \in 1..Len(timed) |-> timed[k].time]
             \* zip(nodes, times) ends with the shorter of the two.
             n == IF Len(nodes) < Len(times) THEN Len(nodes) ELSE Len(times)
             keys == SortedSeq({times[k] : k \in 1..n})
             rg == [k \in 1..Len(keys) |-> nodes[FirstIndex(times, n, keys[k])]]
         IN  [err |-> "none", doc |-> [profile |-> TRUE, groups |-> <<rg>>]]

Reorder ==
    /\ ocount < MaxOps
    /\ LET r == reorder(doc)
       IN  doc' = r.doc /\ oerr' = r.err
    /\ prev' = doc
    /\ ocount' = ocount + 1
    /\ UNCHANGED doc0
    /\ UNCHANGED notdoc

ReorderInit ==
    /\ BaseIdle
    /\ IdleBut("doc")
    /\ doc0 \in {NoDoc} \cup {Document(g) : g \in GroupSeqs}
    /\ doc = doc0 /\ prev = doc0
    /\ oerr = "none" /\ ocount = 0

ReorderNext == Reorder

ReorderSpec == ReorderInit /\ [][ReorderNext]_vars


\* ============================================================ parse_sample
\* parse_sample under the callbacks of one parser_samples_foreach call, one
\* callback per step.  No consumer takes part: the samples of a stream fit
\* into the queue.

\* The callbacks of one sample.  'depth is the last sample type generated by
\* libdivecomputer': the time comes first, then the temperature, then the
\* depth; a callback of another type of parser.h may come anywhere.
SampleCallbacks ==
    {<<"time", "temperature", "depth">>,
     <<"other", "time", "temperature", "depth">>,
     <<"time", "other", "temperature", "depth">>,
     <<"time", "temperature", "other", "depth">>,
     <<"time", "temperature", "depth", "other">>}

Streams == {Flatten(g) : g \in SeqsUpTo(SampleCallbacks, MaxStream)}

\* Faulty variant: the temporary data itself is queued, not a copy of it.
Copy_shared(sd) == [shared |-> TRUE, val |-> sd]

\* sdata.copy(): a new dictionary with the items sdata has now.
Copy(sd) == [shared |-> FALSE, val |-> sd]

\* What a consumer finds in a queued object: its own items or, when the
\* object is the temporary data itself, what that holds by now.
Content(item) == IF item.shared THEN sdata ELSE item.val

\* One call of parse_sample(st, sample, ...); it returns 1 in every branch.
ParseSample ==
    /\ stream # <<>>
    /\ stream' = Tail(stream)
    /\ LET st == Head(stream)
       IN  CASE st = "time" ->
                  /\ sdata' = SetTime(sdata, header, NativeTime(header, sidx + 1))
                  /\ seen' = seen \cup {st}
                  /\ UNCHANGED <<queue, enq, sidx>>
             [] st = "temperature" ->
                  /\ sdata' = SetTemp(sdata, NativeTemp(profile, sidx + 1))
                  /\ seen' = seen \cup {st}
                  /\ UNCHANGED <<queue, enq, sidx>>
             [] st = "depth" ->
                  LET sd == SetDepth(sdata, NativeDepth(profile, sidx + 1))
                  IN  /\ queue' = [queue EXCEPT !["sample"] = Append(@, Copy(sd))]
                      /\ enq' = [enq EXCEPT !["sample"] = Append(@, sd)]
                      /\ sdata' = EmptySData
                      /\ seen' = {}
                      /\ sidx' = sidx + 1
             [] OTHER ->
                  /\ seen' = seen \cup {st}
                  /\ UNCHANGED <<sdata, queue, enq, sidx>>
    /\ UNCHANGED <<fn, result, cpc, yielded, ppc, stopped, timedout, header,
                   sev, samples, dn, profile>>
    /\ UNCHANGED notcb

\* parse_dive has made the queue and the empty temporary data and has
\* started extract_samples.
SampleInit ==
    /\ drv = "su" /\ OstcIdle /\ nrecords = 0
    /\ IdleBut("cb")
    /\ queue = [l \in Levels |-> <<>>]
    /\ fn = [l \in Levels |-> "running"]
    /\ result = [l \in Levels |-> RC_SUCCESS]
    /\ cpc = [l \in Levels |-> "test"]
    /\ yielded = [l \in Levels |-> <<>>]
    /\ enq = [l \in Levels |-> <<>>]
    /\ ppc = "parse_dive"
    /\ stopped = FALSE /\ timedout = FALSE
    /\ \E iv \in Intervals : header = [interval |-> iv, endcount |-> 0]
    /\ sidx = 0 /\ sev = "time" /\ sdata = EmptySData /\ samples = <<>>
    /\ dn = NoDive
    /\ profile \in Profiles
    /\ stream \in Streams
    /\ seen = {}

SampleNext == ParseSample

SampleSpec == SampleInit /\ [][SampleNext]_vars

\* ============================================================ dump command
\* cli.cmd_dump(parser, options, args): download the memory of a device and
\* save it in a dump file.

\* What dumper.dump() returns: the bytes the device delivers at that moment
\* (they hold the device's clock), or DeviceError.
DumpResults ==
    {[err |-> "none", data |-> b] : b \in SeqsUpTo(Bytes, MaxBlob)}
        \cup {[err |-> "DeviceError", data |-> <<>>]}

\* if len(args) != 4: sys.exit(2); dumper = find_driver(MemoryDump, drv, port);
\* if dumper is None: sys.exit(3)
CmdDumpBegin ==
    /\ cmdpc = "start"
    /\ IF nargs # 4 THEN exitcode' = 2 /\ cmdpc' = "exit"
       ELSE IF ~dumper THEN exitcode' = 3 /\ cmdpc' = "exit"
       ELSE exitcode' = exitcode /\ cmdpc' = "dump"
    /\ UNCHANGED <<nargs, dumper, downloads, dumpdata, saved>>
    /\ UNCHANGED notcmd

\* data = dumper.dump()
CmdDumpData ==
    /\ cmdpc = "dump"
    /\ \E r \in DumpResults :
          /\ downloads' = Append(downloads, r)
          /\ IF r.err # "none"
             THEN cmdpc' = "raised" /\ dumpdata' = dumpdata
             ELSE cmdpc' = "set_data" /\ dumpdata' = r.data
    /\ UNCHANGED <<nargs, dumper, saved, exitcode>>
    /\ UNCHANGED notcmd

\* dd.create(); dd.set_id(drv); dd.set_data(dumper.dump()); dd.save(fout)
CmdDumpSave ==
    /\ cmdpc = "set_data"
    /\ \E r \in DumpResults :
          /\ downloads' = Append(downloads, r)
          /\ IF r.err # "none"
             THEN cmdpc' = "raised" /\ saved' = saved
             ELSE /\ cmdpc' = "done"
                  /\ saved' = [written |-> TRUE, text |-> encode(r.data)]
    /\ UNCHANGED <<nargs, dumper, dumpdata, exitcode>>
    /\ UNCHANGED notcmd

DumpCmdInit ==
    /\ BaseIdle
    /\ IdleBut("cmd")
    /\ nargs \in {3, 4}
    /\ dumper \in BOOLEAN
    /\ cmdpc = "start" /\ downloads = <<>> /\ dumpdata = <<>>
    /\ saved = NoFile /\ exitcode = 0

DumpCmdNext ==
    \/ CmdDumpBegin
    \/ CmdDumpData
    \/ CmdDumpSave

DumpCmdSpec == DumpCmdInit /\ [][DumpCmdNext]_vars

\* ================================================================= logbook
\* logbook.add_dive(fout, time, depth, duration, dive_no, fin).

\* The arguments of a call; the duration is given in minutes.
LogArgs ==
    {a \in [ArgNames -> {NoValue, 1, 30, 45}] :
        /\ a.time \in {NoValue, 1} /\ a.depth \in {NoValue, 30}
        /\ a.duration \in {NoValue, 30, 45}
        /\ a.dive_no \in {NoValue, 1} /\ a.fin \in {NoValue, 1}}

\* (time, depth, duration) is not (None, None, None): the identity of a tuple
\* built by the call with a tuple of the code, two objects whatever they hold.
TupleIsNot(t, d, u) == TRUE

\* The branches that decide where the dive comes from.  In the first,
\* ku.parse(fin, q, no=no) reads the name no, which is bound nowhere.
LogBranch ==
    /\ lpc = "start"
    /\ IF largs.dive_no # NoValue /\ largs.fin # NoValue
       THEN lerr' = "NameError" /\ lpc' = "raised" /\ largs' = largs
       ELSE IF TupleIsNot(largs.time, largs.depth, largs.duration)
       THEN IF largs.duration = NoValue
            THEN lerr' = "TypeError" /\ lpc' = "raised" /\ largs' = largs
            ELSE /\ largs' = [largs EXCEPT !.duration = @ * 60]
                 /\ lpc' = "create" /\ lerr' = lerr
       ELSE lerr' = "ValueError" /\ lpc' = "raised" /\ largs' = largs
    /\ UNCHANGED written
    /\ UNCHANGED notlog

\* ku.create_dive_data(doc, time=time, depth=depth, duration=duration), which
\* may reject its values with ValueError.
LogCreate ==
    /\ lpc = "create"
    /\ \E rejected \in BOOLEAN :
          IF rejected THEN lerr' = "ValueError" /\ lpc' = "raised"
          ELSE lerr' = lerr /\ lpc' = "reorder"
    /\ UNCHANGED <<largs, written>>
    /\ UNCHANGED notlog

\* ku.reorder(doc), which raises ValueError on a document without profile
\* data or repetition group; ku.save(doc, fout).
LogSave ==
    /\ lpc = "reorder"
    /\ \E can \in BOOLEAN :
          IF can THEN written' = TRUE /\ lpc' = "done" /\ lerr' = lerr
          ELSE written' = written /\ lpc' = "raised" /\ lerr' = "ValueError"
    /\ UNCHANGED largs
    /\ UNCHANGED notlog

LogbookInit ==
    /\ BaseIdle
    /\ IdleBut("log")
    /\ largs \in LogArgs
    /\ lpc = "start" /\ lerr = "none" /\ written = FALSE

LogbookNext ==
    \/ LogBranch
    \/ LogCreate
    \/ LogSave

LogbookSpec == LogbookInit /\ [][LogbookNext]_vars

\* ================================================================ properties

\* ---- the bridge's exit paths

\* C18: on every way out of a bridged sequence (its end, DeviceError, a
\* consumer whose loop body raised or that stopped pulling) the worker pool
\* is eventually shut down and the consuming thread gets out of the bridge.
C18_WorkerReleased ==
    \A l \in Levels :
        (cpc[l] \in {"result", "closing"})
            ~> (cpc[l] \in {"stop", "error", "closed"})

\* ---- device session

\* C11: a read of n > 0 bytes either returns exactly the n bytes the channel
\* delivered or raises DeviceError; fewer than n bytes are never returned.
C11_ReadExact ==
    rd.size > 0 =>
        \/ rd.err = "none" /\ rd.got = rd.size /\ rd.len = rd.size
        \/ rd.err = "DeviceError" /\ rd.got # rd.size /\ rd.len = NoValue

\* C11 witness: the channel delivered all but one byte and the read failed.
C11_Witness ==
    rd.size > 1 /\ rd.got = rd.size - 1 /\ rd.err = "DeviceError"

\* C12: a scan made while no device is connected yields nothing, and a driver
\* instance is yielded only when a connection to a device was opened.
C12_ScanFindsOnlyConnected ==
    dvpc # "init" =>
        /\ ~connected => found = 0
        /\ found > 0 => opened

\* The complete image of a driver: its parts in order.
PartNames(img) == [k \in 1..Len(img) |-> img[k].part]
RECURSIVE ImageSize(_)
ImageSize(img) == IF img = <<>> THEN 0 ELSE Head(img).size + ImageSize(Tail(img))
DumpCalls == <<"read_user", "get_handshake", "device_dump">>

Satisfies(f, p) == \A k \in DOMAIN f : k \in DOMAIN p /\ p[k] = f[k]

\* The types of the entries of data that satisfy the filter, in order.
RECURSIVE TypesOf(_, _)
TypesOf(data, f) ==
    IF data = <<>> THEN <<>>
    ELSE (IF Satisfies(f, Head(data).params) THEN <<Head(data).cls>> ELSE <<>>)
         \o TypesOf(Tail(data), f)

\* The entries registered under a capability, or under any when it is None.
Registered(c, o) ==
    IF c = "None" THEN Chain(registry, o)
    ELSE IF c \in DOMAIN registry THEN registry[c]
    ELSE <<>>

\* C14: query returns exactly the types of the entries registered under the
\* capability (any capability when it is None) whose attribute map contains
\* every key of the filter with an equal value.
C14_QueryExact ==
    regop.op = "query" =>
        /\ regop.err = "none"
        /\ regop.out = TypesOf(Registered(regop.iface, regop.order), regop.filter)

\* C14 witness: of two entries, the one with an attribute beyond the filter is
\* returned and the one lacking the filter's key is not.
C14_Witness ==
    /\ regop.op = "query" /\ regop.iface # "None"
    /\ DOMAIN regop.filter = {"id"}
    /\ LET d == Registered(regop.iface, regop.order)
       IN  /\ Len(d) = 2 /\ Len(regop.out) = 1
           /\ \E k \in 1..2 : /\ "name" \in DOMAIN d[k].params
                              /\ Satisfies(regop.filter, d[k].params)
           /\ \E k \in 1..2 : "id" \notin DOMAIN d[k].params

\* C15: a query that matches nothing returns an empty sequence and raises
\* nothing, also for a capability that was never registered.
C15_NoMatchIsEmpty ==
    regop.op = "query" =>
        LET d == Registered(regop.iface, regop.order)
        IN  /\ regop.err = "none"
            /\ (\A k \in 1..Len(d) : ~Satisfies(regop.filter, d[k].params))
                  => regop.out = <<>>
            /\ (regop.iface # "None" /\ regop.iface \notin DOMAIN registry)
                  => regop.out = <<>>

\* C15 witness: a capability that was never registered is queried while
\* another one has entries.
C15_Witness ==
    /\ regop.op = "query" /\ regop.iface # "None"
    /\ regop.iface \notin DOMAIN registry
    /\ registry # EmptyRegistry
    /\ regop.out = <<>> /\ regop.err = "none"

IsPrefix(a, b) == Len(a) <= Len(b) /\ SubSeq(b, 1, Len(a)) = a

\* C16: the registry holds one entry per inject call, per capability in call
\* order, duplicates included, and a query without filter returns their types
\* so; inject only appends, and query and params leave the registry as it is.
C16_RegistrationOrder ==
    /\ [](\A c \in Ifaces :
            IF c \in DOMAIN registry
            THEN ClsOf(registry[c]) = injected[c]
            ELSE injected[c] = <<>>)
    /\ []((regop.op = "query" /\ regop.iface # "None"
             /\ DOMAIN regop.filter = {})
            => regop.out = injected[regop.iface])
    /\ [][\A c \in DOMAIN registry :
            c \in DOMAIN registry' /\ IsPrefix(registry[c], registry'[c])]_vars
    /\ [][regop' # NoOp => registry' = registry]_vars

\* C16 witness: the same class was injected twice for a capability and a
\* query without filter returns it twice.
C16_Witness ==
    /\ regop.op = "query" /\ regop.iface # "None"
    /\ DOMAIN regop.filter = {}
    /\ Len(regop.out) = 2 /\ regop.out[1] = regop.out[2]
    /\ regop.out = injected[regop.iface]

\* ---- codec

\* C17: decoding an encoded byte sequence gives the byte sequence back, the
\* empty one included, and encoding what an encoded text decodes to gives
\* that text back.
C17_RoundTrip ==
    /\ kpc \in {"decoded", "reencoded"} =>
          back.err = "none" /\ back.data = blob
    /\ kpc = "reencoded" => again = text

\* C17 witness: data with a run of four equal bytes and a last base64 group
\* that needs padding has made the round trip both ways.
C17_Witness ==
    /\ kpc = "reencoded"
    /\ Len(blob) >= 5 /\ \A k \in 1..4 : blob[k] = blob[1]
    /\ text[Len(text)] = PadChar
    /\ back.data = blob /\ again = text

\* ---- ranges

\* The malformed items: an empty item, a lone '-', a bound that is no number,
\* more than one '-'.
ItemMalformed(d) ==
    \/ Len(d) > 2
    \/ \E k \in 1..Len(d) : d[k].kind = "bad"
    \/ \A k \in 1..Len(d) : d[k].kind = "empty"
Malformed(s) == \E k \in 1..Len(s) : ItemMalformed(s[k])
\* An item without lower bound ('-3'), which only node_range documents.
OpenStart(d) == Len(d) = 2 /\ d[1].kind = "empty" /\ d[2].kind = "num"

\* C19: both parsers raise RangeError, and give no result, for every
\* specification with a malformed item, and raise nothing for a well-formed
\* one; node_range gives one term per item.
C19_MalformedRaises ==
    /\ pres.done =>
          /\ Malformed(rspec) => pres.err = "RangeError" /\ pres.out = <<>>
          /\ (~Malformed(rspec) /\ \A k \in 1..Len(rspec) : ~OpenStart(rspec[k]))
                => pres.err = "none"
    /\ nres.done =>
          /\ Malformed(rspec) => nres.err = "RangeError" /\ nres.out = <<>>
          /\ ~Malformed(rspec) => nres.err = "none"
          /\ nres.err = "none" => Len(nres.out) = Len(rspec)

\* ---- reorder

\* The start times of the dives of a document.
StartTimes(d) ==
    {n.time : n \in {Flatten(d.groups)[k] : k \in 1..Len(Flatten(d.groups))}}
        \ {NoValue}
\* The first dive, in document order, that starts at t.
FirstAt(d, t) ==
    LET nodes == Flatten(d.groups)
    IN  nodes[CHOOSE k \in 1..Len(nodes) :
                /\ nodes[k].time = t
                /\ \A j \in 1..Len(nodes) : nodes[j].time = t => k <= j]
\* One group: the first dive of every start time, in ascending order.
Reordered(d) ==
    LET keys == SortedSeq(StartTimes(d))
    IN  [profile |-> TRUE,
         groups |-> <<[k \in 1..Len(keys) |-> FirstAt(d, keys[k])]>>]
CanReorder(d) == d.profile /\ d.groups # <<>>

\* C20: after reorder a document with profile data has exactly one repetition
\* group, holding the first dive of every distinct start time in ascending
\* order of start time, and a second reorder changes nothing; a document
\* without profile data or repetition group raises ValueError and stays as it
\* was.
C20_ReorderSortsUnique ==
    /\ (ocount >= 1 /\ CanReorder(doc0)) =>
          /\ oerr = "none"
          /\ doc = Reordered(doc0)
          /\ ocount >= 2 => doc = prev
    /\ (ocount >= 1 /\ ~CanReorder(doc0)) =>
          oerr = "ValueError" /\ doc = doc0

\* ---- Sensus Ultra bridge

\* C1: at both levels, a successful status of the producer function ends the
\* consumer's sequence cleanly and any other status ends it with DeviceError,
\* and either end is reached only when every enqueued item has been yielded.
C1_EndAfterDrain ==
    \A l \in Levels :
        /\ cpc[l] = "stop" =>
              /\ fn[l] = "done" /\ result[l] = RC_SUCCESS
              /\ queue[l] = <<>> /\ yielded[l] = enq[l]
        /\ cpc[l] = "error" =>
              /\ fn[l] = "done" /\ result[l] # RC_SUCCESS
              /\ queue[l] = <<>> /\ yielded[l] = enq[l]

\* The dive sequence ended with DeviceError after two or more dives.
C1_Witness == cpc["dive"] = "error" /\ Len(yielded["dive"]) >= 2

\* C2: once parse_dive gave up on a full dive queue, the dive sequence never
\* ends cleanly.
C2_TimeoutIsReported == timedout => cpc["dive"] # "stop"

\* A producer is inside put and its queue is full.
ProducerWaitsOnFull(l) ==
    /\ Len(queue[l]) = QueueCap
    /\ IF l = "dive" THEN ppc = "put"
       ELSE fn["sample"] = "running" /\ sev = "put"

\* C3: at both levels a producer that waits on a full queue waits in a put
\* that is bounded by a timeout.
C3_PutIsBounded == \A l \in Levels : ProducerWaitsOnFull(l) => PutHasTimeout(l)

\* parse_dive is past the trim of a sample sequence that ended cleanly.
Trimmed == cpc["sample"] = "stop" /\ ppc \in {"put", "raised"}

\* C5: with M extracted samples and endcount N, 0 <= N <= M, the first M - N
\* samples remain after the trim, in order, and they are the waypoints of the
\* dive node between its two boundary waypoints.
C5_TrimKeepsFirst ==
    (Trimmed /\ header.endcount <= Len(yielded["sample"])) =>
        /\ samples = SubSeq(yielded["sample"], 1,
                            Len(yielded["sample"]) - header.endcount)
        /\ ppc = "put" =>
              SubSeq(dn.waypoints, 2, Len(dn.waypoints) - 1) = samples

\* ---- both drivers

\* C6: every dive node handed on by parse_dive (Sensus Ultra) or yielded by
\* dives (OSTC) starts with a waypoint of depth 0 and time 0 and ends with a
\* waypoint of depth 0.
StartsAndEndsAtSurface(w) ==
    /\ Len(w) >= 2
    /\ w[1].depth = 0 /\ w[1].time = 0
    /\ w[Len(w)].depth = 0
C4_InvalidRecordsSkipped ==
    /\ ninvalid = nlogged
    /\ \A a, b \in 1..Len(produced) : a < b => produced[a] < produced[b]
    /\ opc = "done" => Len(produced) = nrecords - ninvalid

\* The conditions as the specification words them.
StartCondition(s) ==
    /\ s.deco_depth # NoValue /\ s.deco_depth > 0
    /\ s.deco_time > 0
    /\ s.depth - s.deco_depth <= 1
EndCondition(s) ==
    /\ s.deco_time # NoValue
    /\ \/ s.depth - s.deco_depth > 1
       \/ s.deco_depth = 0
       \/ s.deco_time = 160
       \/ s.deco_time = 0

\* The flag before and after the k-th sample of the record: the alarm of the
\* waypoint before it (the (0, 0) waypoint has none) and of its own waypoint.
FlagBefore(k) == wps[k].alarm
FlagAfter(k) == wps[k + 1].alarm

\* C7: with the flag off before a sample, it is on after it exactly when the
\* sample satisfies the start condition.
C7_AlarmStart ==
    \A k \in 1..Len(taken) :
        ~FlagBefore(k) => (FlagAfter(k) <=> StartCondition(taken[k]))

\* A sample at the ceiling of its stop switched the alarm on.
C7_Witness ==
    \E k \in 1..Len(taken) :
        ~FlagBefore(k) /\ FlagAfter(k) /\ taken[k].depth - taken[k].deco_depth = 1

\* C8: with the flag on before a sample, it is off after it exactly when the
\* sample satisfies the end condition, and evaluating the condition never
\* fails.
C8_AlarmEnd ==
    /\ raisedBy # "TypeError"
    /\ \A k \in 1..Len(taken) :
          FlagBefore(k) => (~FlagAfter(k) <=> EndCondition(taken[k]))

\* The sentinel deco time 160 alone switched the alarm off.
C8_Witness ==
    \E k \in 1..Len(taken) :
        /\ FlagBefore(k) /\ ~FlagAfter(k)
        /\ taken[k].deco_time = 160
        /\ taken[k].depth - taken[k].deco_depth <= 1
        /\ taken[k].deco_depth > 0

\* C9: a sample that satisfies neither condition leaves the flag as it was,
\* so a run of alarm waypoints begins at a start sample and ends before an
\* end sample.
C9_AlarmSticky ==
    \A k \in 1..Len(taken) :
        /\ (~StartCondition(taken[k]) /\ ~EndCondition(taken[k])) =>
              FlagAfter(k) = FlagBefore(k)
        /\ (~FlagBefore(k) /\ FlagAfter(k)) => StartCondition(taken[k])
        /\ (FlagBefore(k) /\ ~FlagAfter(k)) => EndCondition(taken[k])

\* The alarm stayed on over a sample without deco information.
C9_Witness ==
    \E k \in 1..Len(taken) :
        /\ FlagBefore(k) /\ FlagAfter(k)
        /\ taken[k].deco_depth = NoValue

RECURSIVE ScanFlags(_, _)
\* The flags of a scan over sample sequence s that starts in state alarm.
ScanFlags(s, alarm) ==
    IF s = <<>> THEN <<>>
    ELSE <<AlarmStep(alarm, s[1])>> \o ScanFlags(Tail(s), AlarmStep(alarm, s[1]))

\* C10: the flags of a record's waypoints are those of a scan over its own
\* samples from the state false, whatever state the previous record left.
C10_AlarmPerDive ==
    Len(taken) >= 1 =>
        [k \in 1..Len(taken) |-> FlagAfter(k)] = ScanFlags(taken, FALSE)

\* The previous record ended with the alarm on and this one starts without.
C10_Witness == carried /\ Len(taken) >= 1 /\ ~FlagAfter(1)

\* ---- Sensus Ultra bridge: the consumer's loop

\* The consumer of level l has left the loop of _iterate.
Ended(l) == cpc[l] \in {"result", "stop", "error"}

\* C21: the consumer leaves its loop only in a state where the producer
\* function has finished and the queue is empty; a pull that times out while
\* the producer still runs is logged and followed by the loop condition again.
C21_StopsOnlyWhenDrained ==
    /\ [](\A l \in Levels : Ended(l) => fn[l] = "done" /\ queue[l] = <<>>)
    /\ [][\A l \in Levels :
             /\ (~Ended(l) /\ Ended(l)') => fn[l] = "done" /\ queue[l] = <<>>
             /\ (cpc[l] = "get" /\ queue[l] = <<>> /\ fn[l] # "done"
                    /\ cpc'[l] # cpc[l]) => cpc'[l] = "warn"
             /\ (cpc[l] = "warn" /\ cpc'[l] # cpc[l]) => cpc'[l] = "test"]_vars

\* A pull of the dive consumer timed out while extract_dives was running,
\* after a dive had been yielded.
C21_Witness ==
    /\ cpc["dive"] = "warn" /\ fn["dive"] = "running"
    /\ Len(yielded["dive"]) >= 1

\* What one step may do to the queue of level l: leave it, take its first
\* item, add one item behind the others while there are fewer than 5, or
\* (a sample queue) go out of scope with the parse_dive call that made it.
QueueStep(l) ==
    \/ queue'[l] = queue[l]
    \/ queue[l] # <<>> /\ queue'[l] = Tail(queue[l])
    \/ /\ Len(queue[l]) < 5
       /\ Len(queue'[l]) = Len(queue[l]) + 1
       /\ SubSeq(queue'[l], 1, Len(queue[l])) = queue[l]
    \/ l = "sample" /\ ppc \in {"put", "raised"} /\ queue'[l] = <<>>

\* C22: the dive queue and the sample queue hold at most 5 items in every
\* state, and a producer that finds its queue full adds nothing to it and
\* replaces nothing in it.
C22_QueueBounded ==
    /\ [](\A l \in Levels : Len(queue[l]) <= 5)
    /\ [][\A l \in Levels : QueueStep(l)]_vars

\* parse_sample waits in put on a full sample queue while the dive queue is
\* full as well.
C22_Witness == ProducerWaitsOnFull("sample") /\ Len(queue["dive"]) = 5

\* The items of a sequence are pairwise different.
Distinct(s) == \A a, b \in 1..Len(s) : a # b => s[a] # s[b]

\* C27: at both levels the items yielded so far, followed by the items still
\* queued, are the items enqueued, in the order they were enqueued; the items
\* differ from each other, so none is yielded twice, and a sequence that has
\* ended has yielded every one of them.
C27_FifoOnce ==
    \A l \in Levels :
        /\ yielded[l] \o queue[l] = enq[l]
        /\ Distinct(enq[l])
        /\ cpc[l] \in {"stop", "error"} => yielded[l] = enq[l]

\* Both consumers are in the middle of their sequence: each has yielded two
\* or more items while its producer has queued further ones.
C27_Witness ==
    \A l \in Levels :
        cpc[l] = "yield" /\ Len(yielded[l]) >= 2 /\ Len(queue[l]) >= 2

\* C26: while the consumers keep pulling, a bridged sequence whose producer
\* function has returned comes to its end, cleanly or with DeviceError,
\* whatever the interleaving of puts, pulls and pull timeouts before.
C26_SequenceEnds ==
    \A l \in Levels : (fn[l] = "done") ~> (cpc[l] \in {"stop", "error"})

\* The dive sequence ended cleanly after six dives, none of which was lost to
\* a full queue.
C26_Witness ==
    cpc["dive"] = "stop" /\ Len(yielded["dive"]) >= 6 /\ ~timedout

\* ---- both drivers: the summary of a dive

\* v is the greatest (the least) of the values f takes on sequence w.
IsMaxOf(v, w, f(_)) ==
    /\ \E k \in 1..Len(w) : f(w[k]) = v
    /\ \A k \in 1..Len(w) : f(w[k]) <= v
IsMinOf(v, w, f(_)) ==
    /\ \E k \in 1..Len(w) : f(w[k]) = v
    /\ \A k \in 1..Len(w) : f(w[k]) >= v

\* C23: the summary depth of a canonical dive is the greatest depth of its
\* kept samples, for both drivers; for Sensus Ultra the summary temperature
\* is their lowest temperature and the duration is the time of the last kept
\* sample plus the sampling interval.
C23_SummaryFromSamples ==
    /\ ppc = "put" =>
          /\ IsMaxOf(dn.depth, samples, LAMBDA n : n.depth)
          /\ IsMinOf(dn.temp, samples, LAMBDA n : n.temp)
          /\ dn.duration = samples[Len(samples)].time + header.interval
    /\ (opc = "yield" /\ taken # <<>>) =>
          IsMaxOf(summary, taken, LAMBDA n : n.depth)

\* ---- OSTC: the waypoints of a dive

\* The waypoints of a record with the samples s and the sampling interval t:
\* the opening waypoint at time 0, the k-th sample at k * t, and the closing
\* waypoint of depth 0 one interval after the last of them.
WaypointTimes(w, s, t) ==
    /\ Len(w) = Len(s) + 2
    /\ \A k \in 1..Len(w) : w[k].time = (k - 1) * t
    /\ \A k \in 1..Len(s) : w[k + 1].depth = s[k].depth
    /\ w[1].depth = 0 /\ w[Len(w)].depth = 0
    /\ \A k \in 1..(Len(w) - 1) : w[k].time < w[k + 1].time

\* C24: every record, with any number of samples and whatever records came
\* before it, is converted, and its n samples give n + 2 waypoints at the
\* times 0, sampling, ..., (n + 1) * sampling.
C24_WaypointsOfRecord ==
    /\ raisedBy # "UnboundLocalError"
    /\ opc = "yield" => WaypointTimes(wps, taken, sampling)

\* ---- OSTC: one change of the alarm per sample

\* The sample satisfies the start condition and an end condition at once.
StartAndEnd(s) == StartCondition(s) /\ EndCondition(s)

\* C29: a sample changes the flag at most once, and the flag before it
\* decides which condition counts: a sample that satisfies the start and an
\* end condition switches the alarm on when it was off and off when it was
\* on; with the alarm off an end condition alone changes nothing, and with
\* the alarm on a start condition alone changes nothing.
C29_OneChangePerSample ==
    \A k \in 1..Len(taken) :
        /\ StartAndEnd(taken[k]) => FlagAfter(k) = ~FlagBefore(k)
        /\ (~FlagBefore(k) /\ ~StartCondition(taken[k])) => ~FlagAfter(k)
        /\ (FlagBefore(k) /\ ~EndCondition(taken[k])) => FlagAfter(k)

\* Two samples with deco time 160 at the ceiling of their stop: one switched
\* the alarm on, a later one switched it off.
C29_Witness ==
    \E j, k \in 1..Len(taken) :
        /\ j < k
        /\ StartAndEnd(taken[j]) /\ ~FlagBefore(j) /\ FlagAfter(j)
        /\ StartAndEnd(taken[k]) /\ FlagBefore(k) /\ ~FlagAfter(k)
        /\ taken[k].deco_time = 160

\* ---- parse_sample

\* The sample data has the time and the depth of its sample.
Complete(sd) == sd.time # NoValue /\ sd.depth # NoValue

\* C25: every object in the sample queue holds a complete sample, the one it
\* held when it was put, whatever callbacks came later; an object is put only
\* by a depth callback that follows a time callback, and the temporary data
\* is empty after it; a callback of another sample type leaves the queue and
\* the temporary data as they are.
C25_EnqueueWhenComplete ==
    /\ [](/\ Len(queue["sample"]) = Len(enq["sample"])
          /\ \A k \in 1..Len(queue["sample"]) :
                /\ Complete(Content(queue["sample"][k]))
                /\ Content(queue["sample"][k]) = enq["sample"][k])
    /\ [][stream # <<>> =>
            /\ Len(enq'["sample"]) > Len(enq["sample"]) =>
                  /\ Head(stream) = "depth" /\ "time" \in seen
                  /\ sdata' = EmptySData
            /\ Head(stream) \notin {"time", "temperature", "depth"} =>
                  /\ sdata' = sdata /\ queue' = queue /\ enq' = enq]_vars

\* The first sample is in the queue and the second is under way: its time
\* has come, then a callback of another type, and its depth has not.
C25_Witness ==
    /\ Len(queue["sample"]) = 1
    /\ seen = {"time", "other"}
    /\ sdata.time # NoValue /\ sdata.depth = NoValue

\* ---- dump command

\* C28: an invocation of the dump command that got as far as the device has
\* asked it for its memory exactly once, and the file it saved holds the data
\* of that download.
C28_DumpOnce ==
    /\ cmdpc \in {"set_data", "done", "raised"} => Len(downloads) = 1
    /\ cmdpc = "done" =>
          /\ saved.written
          /\ decode(saved.text) = downloads[1]

\* ---- logbook

\* The call gives no dive profile (dive_no and fin) and no dive data.
Neither(a) ==
    /\ ~(a.dive_no # NoValue /\ a.fin # NoValue)
    /\ a.time = NoValue /\ a.depth = NoValue /\ a.duration = NoValue

\* C30: add_dive with neither a dive profile nor any dive data raises
\* ValueError and does not write the logbook file.
C30_NeitherRaisesValueError ==
    (lpc # "start" /\ Neither(largs)) =>
        lpc = "raised" /\ lerr = "ValueError" /\ ~written

====
